---- MODULE Spec2Model ----
(***************************************************************************)
(* A model of the maltego package of gondor: the Entity type, its property *)
(* marshaller (GetGoProperties and the functions it calls), its            *)
(* unmarshaller (Entity.Unmarshal, unmarshalStruct, unmarshalProperties,   *)
(* convert), the Properties XML encoder, the Entity lock, the Transform    *)
(* instance serving a request, the TransformServer and the Link.           *)
(*                                                                         *)
(* Go strings are sequences of one-character strings, so that ToLower,     *)
(* Join and Trim are computed as the code computes them.  A native record  *)
(* type is a descriptor (a reflect.Type), a native record value a tuple of *)
(* field values (a reflect.Value); a pointer is <<>> when nil and <<v>>    *)
(* when it points to v.                                                    *)
(***************************************************************************)
EXTENDS Integers, Sequences, FiniteSets, TLC

VARIABLES
    rtype,        \* the type of the native record held by the Entity (e.data)
    data,         \* the native record the Entity points to (e.data)
    Properties,   \* Entity.Properties: a Go map from names to Fields
    Overlays,     \* Entity.Overlays: a Go map from positions to Overlays
    Labels,       \* Entity.Labels
    insertOrder,  \* history: the keys of Properties in the order first added
    lastOps,      \* history: the last two operations called on the Entity
    prevObs,      \* history: the property set as read before the last GetGoProperties
    nops,         \* history: the number of operations called so far
    target,       \* the native record handed to the unmarshaller
    target0,      \* history: target as it was before the unmarshal call
    uerr,         \* the error returned by the last unmarshal call
    ustatus,      \* how the last unmarshal call ended
    xmlOut,       \* what the last Properties.MarshalXML gave the encoder
    xmlPrev,      \* history: what the MarshalXML before the last gave
    mutex,        \* Entity.mutex, a sync.RWMutex: its readers and its writer
    gor,          \* the goroutines working on the Entity: their call and position
    fatal,        \* the runtime has ended the program on a concurrent map write
    ovl,          \* the record field marshalled with an overlay tag, and the Overlays before
    conv,         \* convert: the shape and value of retval, the strings, the last error
    transform,    \* a Transform instance: its request, its run and the response built
    server,       \* a TransformServer: its transforms map and the calls made on it
    link,         \* an Entity's Link, and the copy a Link method works on
    resolved,     \* getNamespace: the parent namespace, the names of a path, the results
    walk,         \* the calls of marshalStruct in progress on a record, innermost last
    adders,       \* the goroutines calling AddEntity on one Transform, and its mutex
    handler       \* transformHandler: the model Transform and the requests in progress

vars == <<rtype, data, Properties, Overlays, Labels, insertOrder, lastOps,
          prevObs, nops, target, target0, uerr, ustatus, xmlOut, xmlPrev,
          mutex, gor, fatal, ovl, conv, transform, server, link,
          resolved, walk, adders, handler>>

moreVars == <<resolved, walk, adders, handler>>

extVars == <<ovl, conv, transform, server, link>>

xmlVars == <<xmlOut, xmlPrev>>

lockVars == <<mutex, gor, fatal>>

unmarshalVars == <<target, target0, uerr, ustatus>>

\* The number of operations a behaviour calls on the Entity.
MaxOps == 3

\* The number of Labels an Entity may hold before AddLabel is no longer called.
MaxLabels == 2

\* The number of calls each goroutine makes on the Entity.
MaxCalls == 2

\* The goroutines working on one Entity
Goroutines == {"g1", "g2"}

(***************************************************************************)
(* Strings                                                                 *)
(***************************************************************************)

UpperChars == <<"A","B","C","D","E","F","G","H","I","J","K","L","M",
                "N","O","P","Q","R","S","T","U","V","W","X","Y","Z">>

LowerChars == <<"a","b","c","d","e","f","g","h","i","j","k","l","m",
                "n","o","p","q","r","s","t","u","v","w","x","y","z">>

IsUpper(c) == \E i \in 1..Len(UpperChars) : UpperChars[i] = c

\* unicode.ToLower on one character
ToLowerChar(c) ==
    IF IsUpper(c)
    THEN LowerChars[CHOOSE i \in 1..Len(UpperChars) : UpperChars[i] = c]
    ELSE c

\* strings.ToLower
ToLower(s) == [i \in 1..Len(s) |-> ToLowerChar(s[i])]

RECURSIVE TrimLeft(_, _)
TrimLeft(s, c) ==
    IF s # <<>> /\ Head(s) = c THEN TrimLeft(Tail(s), c) ELSE s

RECURSIVE TrimRight(_, _)
TrimRight(s, c) ==
    IF s # <<>> /\ s[Len(s)] = c THEN TrimRight(SubSeq(s, 1, Len(s) - 1), c) ELSE s

\* strings.Trim(s, c) for a one-character cutset
Trim(s, c) == TrimRight(TrimLeft(s, c), c)

\* strings.Join([]string{a, b}, sep)
Join2(a, b, sep) == a \o sep \o b

Dot == <<".">>

\* getNamespace as a buggy variant would compute it: the name is not lower-cased.
getNamespaceNoLower(namespace, name) ==
    Trim(Join2(namespace, name, Dot), ".")

\* getNamespace - Compute the namespace for a field (or a series of them)
getNamespace(namespace, name) ==
    Trim(Join2(namespace, ToLower(name), Dot), ".")

\* reflect.StructField.IsExported: the name starts with an upper-case letter
IsExported(name) == name # <<>> /\ IsUpper(name[1])

(***************************************************************************)
(* String literals of the source and of the record types used as inputs   *)
(***************************************************************************)

sOS == <<"O","S">>

sHostname == <<"H","o","s","t","n","a","m","e">>

sIP == <<"I","P">>

sTarget == <<"T","a","r","g","e","t">>

sMainTarget == <<"m","a","i","n",".","T","a","r","g","e","t">>

sOperatingSystem == <<"O","p","e","r","a","t","i","n","g"," ","S","y","s","t","e","m">>

sOsLower == <<"o","s">>

sYes == <<"y","e","s">>

sAlias == <<"a","l","i","a","s">>

sHostnameLower == <<"h","o","s","t","n","a","m","e">>

sHost == <<"h","o","s","t">>

sIPAddress == <<"I","P"," ","A","d","d","r","e","s","s">>

sIpLower == <<"i","p">>

sAddress == <<"a","d","d","r","e","s","s">>

sWImage == <<"W",",","i","m","a","g","e">>

sCredential == <<"C","r","e","d","e","n","t","i","a","l">>

sMainCredential == <<"m","a","i","n",".","C","r","e","d","e","n","t","i","a","l">>

sLogin == <<"L","o","g","i","n">>

sPublicKey == <<"P","u","b","l","i","c","K","e","y">>

sPrivateKey == <<"P","r","i","v","a","t","e","K","e","y">>

sPublicKeyDisplay == <<"P","u","b","l","i","c"," ","K","e","y">>

sPublicKeyBytes == <<"y","o","u","r"," ","P","u","b","l","i","c"," ","K","e","y"," ","b","y","t","e","s"," ","h","e","r","e">>

sHostType == <<"H","o","s","t">>

sMainHost == <<"m","a","i","n",".","H","o","s","t">>

sName == <<"N","a","m","e">>

sNet == <<"N","e","t">>

sSecretField == <<"s","e","c","r","e","t">>

sNote == <<"N","o","t","e">>

sNetwork == <<"N","e","t","w","o","r","k">>

sMainNetwork == <<"m","a","i","n",".","N","e","t","w","o","r","k">>

sMask == <<"M","a","s","k">>

sUp == <<"U","p">>

sSecret == <<"S","e","c","r","e","t">>

sAdmin == <<"A","d","m","i","n">>

sMainAdmin == <<"m","a","i","n",".","A","d","m","i","n">>

sAccount == <<"A","c","c","o","u","n","t">>

sMainAccount == <<"m","a","i","n",".","A","c","c","o","u","n","t">>

sUser == <<"U","s","e","r">>

sLoginLower == <<"l","o","g","i","n">>

sRoot == <<"r","o","o","t">>

sStaff == <<"S","t","a","f","f">>

sMainStaff == <<"m","a","i","n",".","S","t","a","f","f">>

sBadge == <<"B","a","d","g","e">>

sMainBadge == <<"m","a","i","n",".","B","a","d","g","e">>

sTitle == <<"T","i","t","l","e">>

sCode == <<"C","o","d","e">>

sTitleLower == <<"t","i","t","l","e">>

sChief == <<"c","h","i","e","f">>

sFlag == <<"F","l","a","g">>

sMainFlag == <<"m","a","i","n",".","F","l","a","g">>

sOn == <<"O","n">>

sCount == <<"C","o","u","n","t">>

sMainCount == <<"m","a","i","n",".","C","o","u","n","t">>

sN == <<"N">>

sTags == <<"T","a","g","s">>

sMainTags == <<"m","a","i","n",".","T","a","g","s">>

sList == <<"L","i","s","t">>

sAttrs == <<"A","t","t","r","s">>

sMainAttrs == <<"m","a","i","n",".","A","t","t","r","s">>

sM == <<"M">>

sLabelType == <<"L","a","b","e","l">>

sMainLabel == <<"m","a","i","n",".","L","a","b","e","l">>

sS == <<"S">>

sDomain == <<"D","o","m","a","i","n">>

sNode == <<"N","o","d","e">>

sMainNode == <<"m","a","i","n",".","N","o","d","e">>

sNext == <<"N","e","x","t">>

sMainDomain == <<"m","a","i","n",".","D","o","m","a","i","n">>

sPair == <<"P","a","i","r">>

sMainPair == <<"m","a","i","n",".","P","a","i","r">>

sA == <<"A">>

sB == <<"B">>

sString == <<"s","t","r","i","n","g">>

sBool == <<"b","o","o","l">>

sInt8 == <<"i","n","t","8">>

sGoType == <<"G","o"," ","t","y","p","e">>

sValueSuffix == <<" ","V","a","l","u","e",">">>

sGoTypeReflectValue == <<"G","o"," ","T","y","p","e",":"," ","r","e","f","l","e","c","t",".","V","a","l","u","e">>

sNotesKey == <<"n","o","t","e","s","#">>

sNotes == <<"N","o","t","e","s">>

sInfo == <<"I","n","f","o">>

sTextHtml == <<"t","e","x","t","/","h","t","m","l">>

sTrue == <<"t","r","u","e">>

sFalse == <<"f","a","l","s","e">>

sNilText == <<"<","n","i","l",">">>

sHexPrefix == <<"0","x">>

sMapOpen == <<"m","a","p","[">>

sEmpty == <<>>

sX == <<"x">>

sLinux == <<"l","i","n","u","x">>

sExplicit == <<"e","x","p","l","i","c","i","t">>

sNorthTag == <<"N">>

sHello == <<"h","e","l","l","o">>

(***************************************************************************)
(* Native record types (reflect.Type) and values (reflect.Value)           *)
(***************************************************************************)

NoTags == <<>>

\* A field of a kind that holds no record: string, bool, int8, slice, map.
Fld(name, kind, tags, dom) ==
    [name |-> name, kind |-> kind, elemKind |-> "", elemType |-> "",
     tags |-> tags, dom |-> dom]

\* A field holding a slice of elemKind.
SliceFld(name, elemKind, tags, dom) ==
    [name |-> name, kind |-> "slice", elemKind |-> elemKind, elemType |-> "",
     tags |-> tags, dom |-> dom]

\* A field holding a record by value.
StructFld(name, tid, tags) ==
    [name |-> name, kind |-> "struct", elemKind |-> "", elemType |-> tid,
     tags |-> tags, dom |-> {}]

\* A field holding a pointer to a record.
PtrFld(name, tid, tags) ==
    [name |-> name, kind |-> "ptr", elemKind |-> "struct", elemType |-> tid,
     tags |-> tags, dom |-> {}]

\* A field holding a pointer to a string.
PtrStringFld(name, tags) ==
    [name |-> name, kind |-> "ptr", elemKind |-> "string", elemType |-> "",
     tags |-> tags, dom |-> {}]

NilMap == [isNil |-> TRUE, kv |-> <<>>]

StringDom == {sEmpty, sX}

BoolDom == BOOLEAN

Int8Dom == {0, 5}

SliceDom == {<<>>, <<sA>>}

ByteSliceDom == {<<>>, <<7>>}

MapDom == {NilMap, [isNil |-> FALSE, kv |-> (sA :> sB)]}

\* Target - the example record of the repository
TargetType ==
    [name |-> sTarget, str |-> sMainTarget, kind |-> "struct", receiver |-> "pointer",
     fields |-> <<
        Fld(sOS, "string",
            [display |-> sOperatingSystem, name |-> sOsLower, strict |-> sYes, alias |-> sAlias],
            {sEmpty, sLinux}),
        Fld(sHostname, "string",
            [name |-> sHostnameLower, strict |-> sYes, alias |-> sHost], {sX}),
        Fld(sIP, "string",
            [display |-> sIPAddress, name |-> sIpLower, alias |-> sAddress, overlay |-> sWImage],
            StringDom) >>]

\* Credential - the example record of the repository
CredentialType ==
    [name |-> sCredential, str |-> sMainCredential, kind |-> "struct", receiver |-> "pointer",
     fields |-> <<
        Fld(sLogin, "string", [display |-> sLogin], StringDom),
        SliceFld(sPublicKey, "uint8", [display |-> sPublicKeyDisplay, strict |-> sYes],
                 ByteSliceDom),
        SliceFld(sPrivateKey, "uint8", NoTags, {<<9>>}) >>]

\* A record nesting a record by value, with an unexported field and a pointer field.
HostType ==
    [name |-> sHostType, str |-> sMainHost, kind |-> "struct", receiver |-> "none",
     fields |-> <<
        Fld(sName, "string", [display |-> sName, match |-> sYes], StringDom),
        StructFld(sNet, "Network", NoTags),
        Fld(sSecretField, "string", [display |-> sSecret], {sX}),
        PtrStringFld(sNote, [display |-> sNote]) >>]

NetworkType ==
    [name |-> sNetwork, str |-> sMainNetwork, kind |-> "struct", receiver |-> "none",
     fields |-> <<
        Fld(sIP, "string", [display |-> sIP, overlay |-> sNorthTag], StringDom),
        Fld(sMask, "string", NoTags, {sX}),
        Fld(sUp, "bool", [display |-> sUp, match |-> sEmpty], BoolDom) >>]

\* A record whose base entity is held through a pointer.
AdminType ==
    [name |-> sAdmin, str |-> sMainAdmin, kind |-> "struct", receiver |-> "none",
     fields |-> <<
        PtrFld(sAccount, "Account", [base |-> sEmpty]),
        Fld(sLogin, "string", [display |-> sLogin], StringDom) >>]

AccountType ==
    [name |-> sAccount, str |-> sMainAccount, kind |-> "struct", receiver |-> "pointer",
     fields |-> << Fld(sUser, "string", [display |-> sUser], StringDom) >>]

\* A record whose base entity is held by value.
StaffType ==
    [name |-> sStaff, str |-> sMainStaff, kind |-> "struct", receiver |-> "none",
     fields |-> <<
        StructFld(sBadge, "Badge", [base |-> sEmpty]),
        Fld(sTitle, "string", [display |-> sTitle], StringDom) >>]

BadgeType ==
    [name |-> sBadge, str |-> sMainBadge, kind |-> "struct", receiver |-> "value",
     fields |-> << Fld(sCode, "string", [display |-> sCode], StringDom) >>]

\* Records of one exposed field, one per field type.
FlagType ==
    [name |-> sFlag, str |-> sMainFlag, kind |-> "struct", receiver |-> "none",
     fields |-> << Fld(sOn, "bool", [display |-> sOn], BoolDom) >>]

CountType ==
    [name |-> sCount, str |-> sMainCount, kind |-> "struct", receiver |-> "none",
     fields |-> << Fld(sSecretField, "string", NoTags, {sX}),
                   Fld(sN, "int8", [display |-> sN], Int8Dom) >>]

TagsType ==
    [name |-> sTags, str |-> sMainTags, kind |-> "struct", receiver |-> "none",
     fields |-> << SliceFld(sList, "string", [display |-> sList], SliceDom) >>]

AttrsType ==
    [name |-> sAttrs, str |-> sMainAttrs, kind |-> "struct", receiver |-> "none",
     fields |-> << Fld(sM, "map", [display |-> sM], MapDom) >>]

LabelType ==
    [name |-> sLabelType, str |-> sMainLabel, kind |-> "struct", receiver |-> "none",
     fields |-> << Fld(sS, "string", [display |-> sS], StringDom) >>]

PairType ==
    [name |-> sPair, str |-> sMainPair, kind |-> "struct", receiver |-> "none",
     fields |-> << Fld(sA, "string", [display |-> sA], StringDom),
                   Fld(sB, "int8", [display |-> sB, match |-> sYes], Int8Dom) >>]

\* A record whose only field bears the name of its type.
DomainType ==
    [name |-> sDomain, str |-> sMainDomain, kind |-> "struct", receiver |-> "none",
     fields |-> << Fld(sDomain, "string", [display |-> sDomain], {sX}) >>]

\* A record type that refers to itself through a pointer field.  Its values
\* are built by NodeValues, it is no member of TypeIds.
NodeType ==
    [name |-> sNode, str |-> sMainNode, kind |-> "struct", receiver |-> "none",
     fields |-> << PtrFld(sNext, "Node", [display |-> sNext]),
                   Fld(sName, "string", [display |-> sName], {sX}) >>]

\* A native value that is no record: a string.
RawStringType ==
    [name |-> sString, str |-> sString, kind |-> "string", receiver |-> "none",
     fields |-> <<>>]

TypeIds == {"Target", "Credential", "Host", "Network", "Admin", "Account", "Staff",
            "Badge", "Flag", "Count", "Tags", "Attrs", "Label", "Pair", "Domain",
            "RawString"}

TypeDesc(tid) ==
    CASE tid = "Target"     -> TargetType
      [] tid = "Credential" -> CredentialType
      [] tid = "Host"       -> HostType
      [] tid = "Network"    -> NetworkType
      [] tid = "Admin"      -> AdminType
      [] tid = "Account"    -> AccountType
      [] tid = "Staff"      -> StaffType
      [] tid = "Badge"      -> BadgeType
      [] tid = "Flag"       -> FlagType
      [] tid = "Count"      -> CountType
      [] tid = "Tags"       -> TagsType
      [] tid = "Attrs"      -> AttrsType
      [] tid = "Label"      -> LabelType
      [] tid = "Pair"       -> PairType
      [] tid = "Domain"     -> DomainType
      [] tid = "Node"       -> NodeType
      [] tid = "RawString"  -> RawStringType

FieldsOf(tid) == TypeDesc(tid).fields

NumField(tid) == Len(FieldsOf(tid))

RECURSIVE ZeroOfType(_)

\* The zero value of a field's type
ZeroOfField(fd) ==
    CASE fd.kind = "string" -> sEmpty
      [] fd.kind = "bool"   -> FALSE
      [] fd.kind = "int8"   -> 0
      [] fd.kind = "slice"  -> <<>>
      [] fd.kind = "map"    -> NilMap
      [] fd.kind = "struct" -> ZeroOfType(fd.elemType)
      [] fd.kind = "ptr"    -> <<>>

ZeroOfType(tid) ==
    IF TypeDesc(tid).kind = "string" THEN sEmpty
    ELSE [i \in 1..NumField(tid) |-> ZeroOfField(FieldsOf(tid)[i])]

\* reflect.New(fieldValue.Type().Elem()): the zero value a new pointer points to
ZeroOfElem(fd) ==
    IF fd.elemKind = "struct" THEN ZeroOfType(fd.elemType) ELSE sEmpty

RECURSIVE ValuesOfType(_), ValuesFrom(_, _)

\* The values a field takes in the records given to the Entity
FieldDom(fd) ==
    CASE fd.kind = "struct" -> ValuesOfType(fd.elemType)
      [] fd.kind = "ptr"    -> {<<>>, <<ZeroOfElem(fd)>>}
      [] OTHER              -> fd.dom

ValuesFrom(fields, i) ==
    IF i = 0 THEN {<<>>}
    ELSE {Append(p, x) : p \in ValuesFrom(fields, i - 1), x \in FieldDom(fields[i])}

ValuesOfType(tid) ==
    IF TypeDesc(tid).kind = "string" THEN {sHello}
    ELSE ValuesFrom(FieldsOf(tid), NumField(tid))

\* reflect.StructTag.Lookup: whether the tag is present, and its value
HasTag(fd, tag) == tag \in DOMAIN fd.tags

TagValue(fd, tag) == IF HasTag(fd, tag) THEN fd.tags[tag] ELSE sEmpty

\* reflect.Type.Name() of a field's type: empty for the unnamed types
TypeNameOfField(fd) ==
    CASE fd.kind = "string" -> sString
      [] fd.kind = "bool"   -> sBool
      [] fd.kind = "int8"   -> sInt8
      [] fd.kind = "struct" -> TypeDesc(fd.elemType).name
      [] OTHER              -> sEmpty

(***************************************************************************)
(* The Entity: Field, Properties, Overlays, Labels                         *)
(***************************************************************************)

MatchStrict == "strict"

MatchLoose == "loose"

OverlayNorth == <<"N">>

OverlaySouth == <<"S">>

OverlayWest == <<"W">>

OverlayNorthWest == <<"N","W">>

OverlaySouthWest == <<"S","W">>

OverlayCenter == <<"C">>

OverlayImage == <<"i","m","a","g","e">>

OverlayColour == <<"c","o","l","o","u","r">>

OverlayText == <<"t","e","x","t">>

\* Field.Value holds an interface{}: a string, or the reflect.Value of the record
\* level at `ref` (the path of field indexes from the native record), or the
\* pointer to the native value itself.
StrVal(s) == [kind |-> "str", s |-> s, ref |-> <<>>]

RefVal(path) == [kind |-> "ref", s |-> <<>>, ref |-> path]

PtrVal == [kind |-> "ptr", s |-> <<>>, ref |-> <<>>]

\* Field - A property field for a Maltego entity.  src is history: where the
\* property comes from (a marker, a record field, a base entity, an explicit
\* AddProperty, SetNote) and the path of the record level or field.
MkField(name, display, rule, alias, value, origin, path) ==
    [Name |-> name, Display |-> display, MatchingRule |-> rule, Alias |-> alias,
     Value |-> value, src |-> [o |-> origin, path |-> path]]

\* The Entity fields the marshaller works on; order is the history insertOrder.
MkEntity(props, overlays, labels, order) ==
    [Properties |-> props, Overlays |-> overlays, Labels |-> labels, order |-> order]

EmptyEntity == MkEntity(<<>>, <<>>, <<>>, <<>>)

\* AddProperty - e.Properties[p.Name] = p
AddProperty(E, p) ==
    [E EXCEPT !.Properties = (p.Name :> p) @@ @,
              !.order = IF p.Name \in DOMAIN E.Properties THEN @ ELSE Append(@, p.Name)]

\* AddOverlay as a buggy variant would store it: always at the centre.
AddOverlayAtCenter(E, value, pos, oType) ==
    [E EXCEPT !.Overlays =
        (OverlayCenter :> [PropertyName |-> value, Position |-> pos, Type |-> oType]) @@ @]

\* AddOverlay - e.Overlays[pos] = Overlay{PropertyName, Position, Type}
AddOverlay(E, value, pos, oType) ==
    [E EXCEPT !.Overlays =
        (pos :> [PropertyName |-> value, Position |-> pos, Type |-> oType]) @@ @]

\* AddLabel - append a label, titled "Info" when no title is given
AddLabel(E, title, content) ==
    [E EXCEPT !.Labels =
        Append(@, [Name |-> IF title = sEmpty THEN sInfo ELSE title,
                   Content |-> content, Type |-> sTextHtml])]

\* SetNote - AddProperty of the "notes#" field
SetNote(E, note) ==
    AddProperty(E, MkField(sNotesKey, sNotes, "", sEmpty, StrVal(note), "note", <<>>))

\* isOverlayType - Verify the overlay struct tag, and its type value
isOverlayType(a) == a \in {OverlayText, OverlayImage, OverlayColour}

\* isOverlayPosition - Verify the overlay tag, and its position value
isOverlayPosition(a) ==
    a \in {OverlayCenter, OverlayNorth, OverlayNorthWest, OverlaySouth,
           OverlaySouthWest, OverlayWest}

RECURSIVE SplitFrom(_, _, _)
SplitFrom(s, sep, cur) ==
    IF s = <<>> THEN <<cur>>
    ELSE IF Head(s) = sep THEN <<cur>> \o SplitFrom(Tail(s), sep, <<>>)
    ELSE SplitFrom(Tail(s), sep, Append(cur, Head(s)))

\* strings.Split(s, sep) for a one-character separator
Split(s, sep) == SplitFrom(s, sep, <<>>)

\* addFieldAsOverlay without the default type: a tag whose type is missing
\* or invalid gives no overlay.
addFieldAsOverlayNoDefault(E, f, tag) ==
    LET infos == Split(tag, ",") IN
    IF Len(infos) = 2 /\ isOverlayPosition(infos[1]) /\ isOverlayType(infos[2])
    THEN AddOverlay(E, f.Name, infos[1], infos[2])
    ELSE E

\* addFieldAsOverlay - A struct field has been tagged as overlay,
\* so validate it, create it and register it to the entity.
addFieldAsOverlay(E, f, tag) ==
    LET infos == Split(tag, ",") IN
    IF Len(infos) = 1 /\ infos[1] = sEmpty THEN E
    ELSE IF Len(infos) = 1 /\ isOverlayPosition(infos[1])
         THEN AddOverlay(E, f.Name, infos[1], OverlayText)
    ELSE IF Len(infos) = 2
         THEN IF ~isOverlayPosition(infos[1]) /\ ~isOverlayType(infos[2]) THEN E
              ELSE IF isOverlayPosition(infos[1]) /\ ~isOverlayType(infos[2])
                   THEN AddOverlay(E, f.Name, infos[1], OverlayText)
              ELSE IF isOverlayPosition(infos[1]) /\ isOverlayType(infos[2])
                   THEN AddOverlay(E, f.Name, infos[1], infos[2])
              ELSE E
    ELSE E

\* The properties, overlays and labels a type's AsEntity adds to the Entity it
\* makes with NewEntity.  Credential.AsEntity adds the PublicKey property and
\* an overlay on it; Account and Badge stand for base entities that bring a
\* property named like a property of the record embedding them.
CtorOf(tid) ==
    CASE tid = "Credential" ->
            AddOverlay(
                AddProperty(EmptyEntity,
                    MkField(sPublicKey, sPublicKeyDisplay, MatchStrict, sEmpty,
                            StrVal(sPublicKeyBytes), "explicit", <<>>)),
                sPublicKey, OverlayNorth, OverlayText)
      [] tid = "Account" ->
            AddLabel(
                AddProperty(
                    AddProperty(EmptyEntity,
                        MkField(sLoginLower, sLogin, MatchLoose, sEmpty,
                                StrVal(sRoot), "explicit", <<>>)),
                    MkField(sUser, sUser, MatchLoose, sEmpty,
                            StrVal(sRoot), "explicit", <<>>)),
                sEmpty, sRoot)
      [] tid = "Badge" ->
            AddProperty(EmptyEntity,
                MkField(sTitleLower, sTitle, MatchLoose, sEmpty,
                        StrVal(sChief), "explicit", <<>>))
      [] OTHER -> EmptyEntity

\* NewEntity, then what the type's AsEntity adds
AsEntity(tid) == CtorOf(tid)

(***************************************************************************)
(* Marshalling: GetGoProperties and the functions it calls                 *)
(***************************************************************************)

RECURSIVE MergeFrom(_, _, _, _)
MergeFrom(E, base, path, i) ==
    IF i > Len(base.order) THEN E
    ELSE MergeFrom(
            AddProperty(E, [base.Properties[base.order[i]]
                              EXCEPT !.src = [o |-> "base", path |-> path]]),
            base, path, i + 1)

\* setDisplayProperties - the base entity's properties are copied into the
\* Entity's keyed map, its labels are put ahead of the Entity's own.
setDisplayProperties(E, base, path) ==
    [MergeFrom(E, base, path, 1) EXCEPT !.Labels = base.Labels \o @]

\* entityValue.Type().Implements(validEntity) for the value marshalBaseEntity
\* is given: the pointer of a field that held one, else the record itself.
\* A method with a pointer receiver is in the method set of the pointer only.
ImplementsValidEntity(fd, wasNil) ==
    LET recv == IF fd.kind = "struct" \/ (fd.kind = "ptr" /\ fd.elemKind = "struct")
                THEN TypeDesc(fd.elemType).receiver
                ELSE "none"
    IN  IF fd.kind = "ptr" /\ ~wasNil
        THEN recv \in {"value", "pointer"}
        ELSE recv = "value"

\* marshalBaseEntity - Given a struct field embedded and marked as a Base Entity type,
\* check that the type indeed satisfies the maltego.ValidEntity interface, and process it.
marshalBaseEntity(E, fd, wasNil, path) ==
    IF ImplementsValidEntity(fd, wasNil)
    THEN setDisplayProperties(E, AsEntity(fd.elemType), path)
    ELSE E

RECURSIVE marshalBaseEntitiesFrom(_, _, _, _, _)
marshalBaseEntitiesFrom(E, tid, v, path, i) ==
    IF i > NumField(tid) THEN [e |-> E, v |-> v]
    ELSE LET fd == FieldsOf(tid)[i]
             wasNil == fd.kind = "ptr" /\ v[i] = <<>>
             v1 == IF wasNil THEN [v EXCEPT ![i] = <<ZeroOfElem(fd)>>] ELSE v
         IN  IF ~IsExported(fd.name)
             THEN marshalBaseEntitiesFrom(E, tid, v, path, i + 1)
             ELSE IF HasTag(fd, "base")
             THEN marshalBaseEntitiesFrom(
                      marshalBaseEntity(E, fd, wasNil, Append(path, i)),
                      tid, v1, path, i + 1)
             ELSE marshalBaseEntitiesFrom(E, tid, v1, path, i + 1)

\* marshalBaseEntities - Get all the base Entities first, process their
\* properties before we deal with the Entity-specific ones.  Every exported
\* nil pointer field is set to a new zero value on the way.
marshalBaseEntities(E, tid, v, path) == marshalBaseEntitiesFrom(E, tid, v, path, 1)

\* The display gate as a buggy variant would have it: every field is exposed.
isDisplayedAlways(fd) == TRUE

\* fieldType.Tag.Lookup("display"): the only required tag
isDisplayed(fd) == HasTag(fd, "display")

\* The matching rule read from the tag the documentation names.
matchingRuleFromStrictTag(fd) ==
    IF HasTag(fd, "strict") /\ TagValue(fd, "strict") # sEmpty THEN MatchStrict ELSE MatchLoose

\* Process MatchRules: strict when the "match" tag is present and not empty
matchingRuleOf(fd) ==
    IF HasTag(fd, "match") /\ TagValue(fd, "match") # sEmpty THEN MatchStrict ELSE MatchLoose

\* Process Aliases: the "alias" tag, else the lower-cased field name
aliasOf(fd) ==
    IF ~HasTag(fd, "alias") \/ TagValue(fd, "alias") = sEmpty
    THEN ToLower(fd.name)
    ELSE TagValue(fd, "alias")

\* The "root" separation property of a record level
markerField(namespace, tid, path) ==
    MkField(getNamespace(namespace, TypeDesc(tid).name),
            <<"<">> \o TypeDesc(tid).str \o sValueSuffix,
            MatchLoose, sEmpty, StrVal(sGoType), "marker", path)

\* The property of a field of the record level at path
leafField(namespace, fd, path, i) ==
    MkField(getNamespace(namespace, fd.name), TypeNameOfField(fd), matchingRuleOf(fd),
            aliasOf(fd), RefVal(path), "field", Append(path, i))

RECURSIVE marshalStruct(_, _, _, _, _, _), marshalPropertiesFrom(_, _, _, _, _, _)

\* marshalProperties - Wrap all fields specific to this Entity into valid
\* Properties, based on reflection: the loop, from field i on.
marshalPropertiesFrom(E, namespace, tid, v, path, i) ==
    IF i > NumField(tid) THEN [e |-> E, v |-> v]
    ELSE LET fd == FieldsOf(tid)[i]
             wasNil == fd.kind = "ptr" /\ v[i] = <<>>
             v1 == IF wasNil THEN [v EXCEPT ![i] = <<ZeroOfElem(fd)>>] ELSE v
             realKind == IF wasNil THEN fd.elemKind ELSE fd.kind
             f == leafField(namespace, fd, path, i)
             E1 == AddProperty(E, f)
             E2 == IF HasTag(fd, "overlay")
                   THEN addFieldAsOverlay(E1, f, TagValue(fd, "overlay"))
                   ELSE E1
         IN  IF ~IsExported(fd.name)
             THEN marshalPropertiesFrom(E, namespace, tid, v, path, i + 1)
             ELSE IF realKind = "struct"
             THEN LET r == marshalStruct(E, namespace, fd.elemType,
                                         IF wasNil THEN v1[i][1] ELSE v[i],
                                         <<fd>>, Append(path, i))
                      v2 == [v EXCEPT ![i] = IF wasNil THEN <<r.v>> ELSE r.v]
                  IN  marshalPropertiesFrom(r.e, namespace, tid, v2, path, i + 1)
             ELSE IF ~isDisplayed(fd)
             THEN marshalPropertiesFrom(E, namespace, tid, v1, path, i + 1)
             ELSE marshalPropertiesFrom(E2, namespace, tid, v1, path, i + 1)

marshalProperties(E, namespace, tid, v, path) ==
    marshalPropertiesFrom(E, namespace, tid, v, path, 1)

\* marshalStruct as a buggy variant would do it: the base entities are folded
\* in after the record's own fields.
marshalStructBaseLast(E, namespace, tid, v, field, path) ==
    LET E1 == AddProperty(E, markerField(namespace, tid, path))
        ns == IF field # <<>> THEN getNamespace(namespace, field[1].name) ELSE namespace
        r  == marshalProperties(E1, ns, tid, v, path)
    IN  marshalBaseEntities(r.e, tid, r.v, path)

\* marshalStruct - Marshal a struct with an arbitrary level of nesting, and
\* package its content as Properties.  field is <<>> for the nil pointer.
marshalStruct(E, namespace, tid, v, field, path) ==
    LET b  == marshalBaseEntities(E, tid, v, path)
        E1 == AddProperty(b.e, markerField(namespace, tid, path))
        ns == IF field # <<>> THEN getNamespace(namespace, field[1].name) ELSE namespace
    IN  marshalProperties(E1, ns, tid, b.v, path)

\* GetGoProperties - package all valid fields in the struct stored by the
\* Entity as properties; everything but a struct is packaged as it is.
GetGoProperties(E, tid, v) ==
    IF TypeDesc(tid).kind = "struct"
    THEN marshalStruct(E, sEmpty, tid, v, <<>>, <<>>)
    ELSE [e |-> AddProperty(E, MkField(sGoTypeReflectValue, sEmpty, MatchLoose, sEmpty,
                                       PtrVal, "raw", <<>>)),
          v |-> v]

(***************************************************************************)
(* fmt.Sprintf("%v", value)                                                *)
(***************************************************************************)

Digits == <<"0","1","2","3","4","5","6","7","8","9">>

IsDigit(c) == \E i \in 1..Len(Digits) : Digits[i] = c

DigitValue(c) == (CHOOSE i \in 1..Len(Digits) : Digits[i] = c) - 1

RECURSIVE NatToStr(_)
NatToStr(n) ==
    IF n < 10 THEN <<Digits[n + 1]>> ELSE NatToStr(n \div 10) \o <<Digits[(n % 10) + 1]>>

\* strconv.FormatInt(n, 10)
IntToStr(n) == IF n < 0 THEN <<"-">> \o NatToStr(0 - n) ELSE NatToStr(n)

\* The characters of the model's strings, in the order of their code points
CodePoints == <<" ", "#", ",", ".", "/", ":", "<", ">">> \o Digits \o UpperChars
              \o <<"[", "]">> \o LowerChars \o <<"{", "}">>

CodePoint(c) == CHOOSE i \in 1..Len(CodePoints) : CodePoints[i] = c

RECURSIVE StrLess(_, _)
\* a < b for Go strings
StrLess(a, b) ==
    IF b = <<>> THEN FALSE
    ELSE IF a = <<>> THEN TRUE
    ELSE IF Head(a) = Head(b) THEN StrLess(Tail(a), Tail(b))
    ELSE CodePoint(Head(a)) < CodePoint(Head(b))

RECURSIVE JoinAll(_, _)
\* strings.Join(parts, sep)
JoinAll(parts, sep) ==
    IF parts = <<>> THEN <<>>
    ELSE IF Len(parts) = 1 THEN parts[1]
    ELSE parts[1] \o sep \o JoinAll(Tail(parts), sep)

RECURSIVE SortedKeys(_)
\* the keys of a map in the order fmt prints them
SortedKeys(keys) ==
    IF keys = {} THEN <<>>
    ELSE LET k == CHOOSE x \in keys : \A y \in keys \ {x} : StrLess(x, y)
         IN  <<k>> \o SortedKeys(keys \ {k})

RECURSIVE SprintStruct(_, _)

\* %v of one field value
SprintField(fd, x) ==
    CASE fd.kind = "string" -> x
      [] fd.kind = "bool"   -> IF x THEN sTrue ELSE sFalse
      [] fd.kind = "int8"   -> IntToStr(x)
      [] fd.kind = "slice"  ->
            <<"[">> \o JoinAll([i \in 1..Len(x) |->
                                   IF fd.elemKind = "string" THEN x[i] ELSE IntToStr(x[i])],
                               <<" ">>) \o <<"]">>
      [] fd.kind = "map"    ->
            LET ks == SortedKeys(DOMAIN x.kv)
            IN  sMapOpen \o JoinAll([i \in 1..Len(ks) |-> ks[i] \o <<":">> \o x.kv[ks[i]]],
                                    <<" ">>) \o <<"]">>
      [] fd.kind = "struct" -> SprintStruct(fd.elemType, x)
      [] fd.kind = "ptr"    -> IF x = <<>> THEN sNilText ELSE sHexPrefix

\* %v of a record: its fields between braces (a pointer prints as an address,
\* of which the model keeps the prefix)
SprintStruct(tid, v) ==
    <<"{">> \o JoinAll([i \in 1..NumField(tid) |-> SprintField(FieldsOf(tid)[i], v[i])],
                       <<" ">>) \o <<"}">>

RECURSIVE LevelAt(_, _, _)
\* The record level at path in the record v of type tid: its type and value
LevelAt(tid, v, path) ==
    IF path = <<>> THEN [tid |-> tid, v |-> v]
    ELSE LET fd == FieldsOf(tid)[Head(path)]
             x  == v[Head(path)]
         IN  LevelAt(fd.elemType, IF fd.kind = "ptr" THEN x[1] ELSE x, Tail(path))

\* fmt.Sprintf("%v", p.Value), the Value read in the native record v
Sprintf(value, tid, v) ==
    CASE value.kind = "str" -> value.s
      [] value.kind = "ptr" -> sHexPrefix
      [] value.kind = "ref" ->
            LET l == LevelAt(tid, v, value.ref) IN SprintStruct(l.tid, l.v)

\* Property - Returns the string value of a Property field, given the name
\* (key) of the field as argument.  If not found, returns an empty string.
Property(E, name, tid, v) ==
    IF name \in DOMAIN E.Properties
    THEN Sprintf(E.Properties[name].Value, tid, v)
    ELSE sEmpty

\* The property set as a reader finds it: for each key the printed value, the
\* matching rule and the alias.
Observe(props, tid, v) ==
    [k \in DOMAIN props |->
        [Value |-> Sprintf(props[k].Value, tid, v),
         MatchingRule |-> props[k].MatchingRule,
         Alias |-> props[k].Alias]]

(***************************************************************************)
(* Unmarshalling: convert, unmarshalProperties, unmarshalStruct, Unmarshal *)
(***************************************************************************)

RECURSIVE DigitsToNat(_, _)
DigitsToNat(s, acc) ==
    IF s = <<>> THEN acc ELSE DigitsToNat(Tail(s), acc * 10 + DigitValue(Head(s)))

AllDigits(s) == s # <<>> /\ \A i \in 1..Len(s) : IsDigit(s[i])

\* strconv.ParseUint(s, 10, bits)
ParseUint(s, bits) ==
    IF ~AllDigits(s) THEN [err |-> "syntax", val |-> 0]
    ELSE IF DigitsToNat(s, 0) > 2^bits - 1 THEN [err |-> "range", val |-> 2^bits - 1]
    ELSE [err |-> "nil", val |-> DigitsToNat(s, 0)]

\* ParseInt without the range check: a value out of range is cut to the
\* nearest one the width holds, and no error is returned.
ParseIntClamped(s, bits) ==
    LET neg  == s # <<>> /\ Head(s) = "-"
        body == IF s # <<>> /\ Head(s) \in {"+", "-"} THEN Tail(s) ELSE s
        n    == DigitsToNat(body, 0)
    IN  IF ~AllDigits(body) THEN [err |-> "syntax", val |-> 0]
        ELSE IF ~neg /\ n > 2^(bits - 1) - 1 THEN [err |-> "nil", val |-> 2^(bits - 1) - 1]
        ELSE IF neg /\ n > 2^(bits - 1) THEN [err |-> "nil", val |-> 0 - 2^(bits - 1)]
        ELSE [err |-> "nil", val |-> IF neg THEN 0 - n ELSE n]

\* strconv.ParseInt(s, 10, bits)
ParseInt(s, bits) ==
    LET neg  == s # <<>> /\ Head(s) = "-"
        body == IF s # <<>> /\ Head(s) \in {"+", "-"} THEN Tail(s) ELSE s
        n    == DigitsToNat(body, 0)
    IN  IF ~AllDigits(body) THEN [err |-> "syntax", val |-> 0]
        ELSE IF ~neg /\ n > 2^(bits - 1) - 1 THEN [err |-> "range", val |-> 2^(bits - 1) - 1]
        ELSE IF neg /\ n > 2^(bits - 1) THEN [err |-> "range", val |-> 0 - 2^(bits - 1)]
        ELSE [err |-> "nil", val |-> IF neg THEN 0 - n ELSE n]

TrueStrings == {<<"1">>, <<"t">>, <<"T">>, <<"T","R","U","E">>, sTrue, <<"T","r","u","e">>}

FalseStrings == {<<"0">>, <<"f">>, <<"F">>, <<"F","A","L","S","E">>, sFalse,
                 <<"F","a","l","s","e">>}

\* ParseBool without the error: what is not a true string is false.
ParseBoolLenient(s) ==
    [err |-> "nil", val |-> s \in TrueStrings]

\* strconv.ParseBool
ParseBool(s) ==
    IF s \in TrueStrings THEN [err |-> "nil", val |-> TRUE]
    ELSE IF s \in FalseStrings THEN [err |-> "nil", val |-> FALSE]
    ELSE [err |-> "syntax", val |-> FALSE]

RECURSIVE IndexOf(_, _, _)
IndexOf(s, c, i) ==
    IF i > Len(s) THEN 0 ELSE IF s[i] = c THEN i ELSE IndexOf(s, c, i + 1)

\* strings.Split in the place of SplitN: the string is cut at every separator
SplitEvery(s, sep) == Split(s, sep)

\* strings.SplitN(s, sep, 2) for a one-character separator
SplitN2(s, sep) ==
    LET i == IndexOf(s, sep, 1)
    IN  IF i = 0 THEN <<s>> ELSE <<SubSeq(s, 1, i - 1), SubSeq(s, i + 1, Len(s))>>

\* The shape (reflect.Type) of what a slice or a pointer holds
ElemShape(td) ==
    [kind |-> td.elemKind, elemKind |-> "", elemType |-> td.elemType]

StringShape == [kind |-> "string", elemKind |-> "", elemType |-> ""]

\* reflect.New(shape): a pointer to the zero value of the shape
ZeroOfShape(td) ==
    CASE td.kind = "string" -> sEmpty
      [] td.kind = "bool"   -> FALSE
      [] td.kind \in {"int8", "uint8"} -> 0
      [] td.kind = "map"    -> NilMap
      [] td.kind = "struct" -> ZeroOfType(td.elemType)
      [] OTHER              -> <<>>

\* The element put before the elements the slice holds
reflectPrepend(s, x) == <<x>> \o s

\* reflect.Append(s, x)
reflectAppend(s, x) == Append(s, x)

RECURSIVE convert(_, _, _)

\* convert - "casts" a string representation of an arbitrary value and
\* populates the value retval, of shape td and holding cur, with it.  The
\* result is the error and what retval holds afterwards.
convert(val, td, cur) ==
    CASE td.kind = "string" -> [err |-> "nil", val |-> val]
      [] td.kind = "bool" ->
            IF val = sEmpty THEN [err |-> "nil", val |-> TRUE]
            ELSE LET b == ParseBool(val)
                 IN  IF b.err # "nil" THEN [err |-> b.err, val |-> cur] ELSE b
      [] td.kind = "int8" ->
            LET n == ParseInt(val, 8)
            IN  IF n.err # "nil" THEN [err |-> n.err, val |-> cur] ELSE n
      [] td.kind = "uint8" ->
            LET n == ParseUint(val, 8)
            IN  IF n.err # "nil" THEN [err |-> n.err, val |-> cur] ELSE n
      [] td.kind = "slice" ->
            LET r == convert(val, ElemShape(td), ZeroOfShape(ElemShape(td)))
            IN  IF r.err # "nil" THEN [err |-> r.err, val |-> cur]
                ELSE [err |-> "nil", val |-> reflectAppend(cur, r.val)]
      [] td.kind = "map" ->
            LET parts == SplitN2(val, ":")
                key   == parts[1]
                value == IF Len(parts) = 2 THEN parts[2] ELSE sEmpty
                k     == convert(key, StringShape, sEmpty)
                x     == convert(value, StringShape, sEmpty)
            IN  IF k.err # "nil" THEN [err |-> k.err, val |-> cur]
                ELSE IF x.err # "nil" THEN [err |-> x.err, val |-> cur]
                ELSE [err |-> "nil",
                      val |-> [isNil |-> FALSE, kv |-> (k.val :> x.val) @@ cur.kv]]
      [] td.kind = "ptr" ->
            LET inner == IF cur = <<>> THEN ZeroOfShape(ElemShape(td)) ELSE cur[1]
                r     == convert(val, ElemShape(td), inner)
            IN  [err |-> r.err, val |-> <<r.val>>]
      [] OTHER -> [err |-> "nil", val |-> cur]

\* The shape of a record field
ShapeOfField(fd) == [kind |-> fd.kind, elemKind |-> fd.elemKind, elemType |-> fd.elemType]

\* What a fixed unmarshalProperties would hand to convert: the field itself.
convertTargetField(tid, v, i) ==
    [field |-> TRUE, td |-> ShapeOfField(FieldsOf(tid)[i]), cur |-> v[i]]

\* What unmarshalProperties hands to convert: realval, which by then is
\* reflect.New of the record's type, a pointer to a new zero record.
convertTarget(tid, v, i) ==
    [field |-> FALSE,
     td |-> [kind |-> "ptr", elemKind |-> "struct", elemType |-> tid],
     cur |-> <<ZeroOfType(tid)>>]

\* fqn := strings.Join([]string{namespace, field.Name}, ".")
lookupKey(namespace, name) == Join2(namespace, name, Dot)

RECURSIVE unmarshalStruct(_, _, _, _, _, _, _), unmarshalPropertiesFrom(_, _, _, _, _, _, _, _)

\* unmarshalProperties - Populate native Go fields with their equivalent
\* Maltego properties: the loop, from field i on.  isNew tells that realval
\* has been replaced by a pointer to a new record; dtid and d are the
\* Entity's own native record, in which a property's Value is read.  The
\* result is how the call ended, the last error convert returned (which the
\* code drops) and the record.
unmarshalPropertiesFrom(E, dtid, d, namespace, tid, v, isNew, i) ==
    IF i > NumField(tid) THEN [status |-> "returned", v |-> v]
    ELSE IF isNew THEN [status |-> "panic", v |-> v]       \* Field of a pointer type
    ELSE LET fd  == FieldsOf(tid)[i]
             tgt == convertTarget(tid, v, i)
             c   == convert(Property(E, lookupKey(namespace, fd.name), dtid, d),
                            tgt.td, tgt.cur)
             v1  == IF tgt.field THEN [v EXCEPT ![i] = c.val] ELSE v
         IN  IF ~IsExported(fd.name)
             THEN unmarshalPropertiesFrom(E, dtid, d, namespace, tid, v, isNew, i + 1)
             ELSE IF fd.kind = "ptr"
             THEN [status |-> "panic", v |-> v]             \* IsNil of a struct Value
             ELSE IF fd.kind = "struct"
             THEN LET r == unmarshalStruct(E, dtid, d, namespace, fd.elemType, v[i], <<fd>>)
                  IN  IF r.status = "panic"
                      THEN [status |-> "panic", v |-> [v EXCEPT ![i] = r.v]]
                      ELSE unmarshalPropertiesFrom(E, dtid, d, namespace, tid,
                                                   [v EXCEPT ![i] = r.v], TRUE, i + 1)
             ELSE IF ~isDisplayed(fd)
             THEN unmarshalPropertiesFrom(E, dtid, d, namespace, tid, v, TRUE, i + 1)
             ELSE unmarshalPropertiesFrom(E, dtid, d, namespace, tid, v1, TRUE, i + 1)

unmarshalProperties(E, dtid, d, namespace, tid, v) ==
    IF TypeDesc(tid).kind # "struct"
    THEN [status |-> "panic", v |-> v]                      \* NumField of a non-struct
    ELSE unmarshalPropertiesFrom(E, dtid, d, namespace, tid, v, FALSE, 1)

\* unmarshalStruct - Given a struct value, unmarshal zero or more Entity
\* properties into its fields, and do this recursively for all struct fields.
unmarshalStruct(E, dtid, d, namespace, tid, v, sField) ==
    unmarshalProperties(E, dtid, d,
        IF sField # <<>> THEN getNamespace(namespace, sField[1].name) ELSE namespace,
        tid, v)

\* Entity.Unmarshal as its documentation has it: the walk over the record.
EntityUnmarshalWalk(E, dtid, d, tid, v) ==
    LET r == unmarshalStruct(E, dtid, d, sEmpty, tid, v, <<>>)
    IN  [err |-> IF r.status = "panic" THEN "none" ELSE "nil",
         status |-> r.status, v |-> r.v]

\* Unmarshal - A Maltego entity is being passed a Go native type in which to
\* unmarshal its properties.  The body holds comments only: nothing is
\* populated and the error returned is nil.
EntityUnmarshal(E, dtid, d, tid, v) ==
    [err |-> "nil", status |-> "returned", v |-> v]

(***************************************************************************)
(* The Entity of a native record, and the operations called on it          *)
(***************************************************************************)

\* The Entity as the variables hold it
CurrentEntity == MkEntity(Properties, Overlays, Labels, insertOrder)

\* The fields a caller adds with AddProperty: one named like the Login field
\* of the native record, one named like the key the marshaller gives it.
ExplicitFields ==
    { MkField(sLogin, sLogin, MatchStrict, sEmpty, StrVal(sExplicit), "explicit", <<>>),
      MkField(sLoginLower, sLogin, MatchLoose, sEmpty, StrVal(sExplicit), "explicit", <<>>) }

\* The overlays a caller adds with AddOverlay
ExplicitOverlays ==
    { [value |-> sPublicKey, pos |-> OverlayNorth, oType |-> OverlayText],
      [value |-> sLoginLower, pos |-> OverlayCenter, oType |-> OverlayImage] }

SetEntity(E) ==
    /\ Properties' = E.Properties
    /\ Overlays' = E.Overlays
    /\ Labels' = E.Labels
    /\ insertOrder' = E.order

Called(op) ==
    /\ lastOps' = <<lastOps[2], op>>
    /\ nops' = nops + 1

\* What the encoder holds when MarshalXML has not been called
NoXML == [started |-> FALSE, fields |-> <<>>, ended |-> FALSE]

\* NewEntity(data), through the AsEntity of the record's type
EntityInit ==
    /\ rtype \in TypeIds
    /\ data \in ValuesOfType(rtype)
    /\ Properties = AsEntity(rtype).Properties
    /\ Overlays = AsEntity(rtype).Overlays
    /\ Labels = AsEntity(rtype).Labels
    /\ insertOrder = AsEntity(rtype).order
    /\ lastOps = <<"none", "NewEntity">>
    /\ prevObs = <<>>
    /\ nops = 0
    /\ target \in {ZeroOfType(rtype), data}
    /\ target0 = target
    /\ uerr = "none"
    /\ ustatus = "none"
    /\ xmlOut = NoXML
    /\ xmlPrev = NoXML
    /\ mutex = [readers |-> [g \in Goroutines |-> 0], writer |-> "none"]
    /\ gor = [g \in Goroutines |-> [pc |-> "idle", op |-> "none", calls |-> 0]]
    /\ fatal = FALSE

\* No record field is being marshalled
NoField ==
    [fd |-> Fld(sEmpty, "string", NoTags, {}), namespace |-> sEmpty, pos |-> sEmpty,
     hasKind |-> FALSE, kind |-> sEmpty, before |-> <<>>, called |-> FALSE]

\* No convert is being called
NoConvert ==
    [td |-> StringShape, start |-> sEmpty, cur |-> sEmpty, cur0 |-> sEmpty,
     vals |-> <<>>, done |-> <<>>, err |-> "none"]

\* No Transform instance, no TransformServer and no Link are in use
NoTransform == [pc |-> "none"]

NoServer == [pc |-> "none"]

NoLink == [pc |-> "none"]

\* No namespace is being resolved, no record walked, no goroutine adds an
\* entity and no request is handled
NoResolve == [pc |-> "none"]

NoWalk == [pc |-> "none"]

NoAdders == [pc |-> "none"]

NoHandler == [pc |-> "none"]

MoreIdle ==
    /\ resolved = NoResolve
    /\ walk = NoWalk
    /\ adders = NoAdders
    /\ handler = NoHandler

Init ==
    /\ EntityInit
    /\ MoreIdle
    /\ ovl = NoField
    /\ conv = NoConvert
    /\ transform = NoTransform
    /\ server = NoServer
    /\ link = NoLink

CallGetGoProperties ==
    /\ nops < MaxOps
    /\ LET r == GetGoProperties(CurrentEntity, rtype, data)
       IN  /\ SetEntity(r.e)
           /\ data' = r.v
    /\ prevObs' = Observe(Properties, rtype, data)
    /\ Called("GetGoProperties")
    /\ UNCHANGED <<moreVars, extVars, rtype, unmarshalVars, xmlVars, lockVars>>

CallAddProperty ==
    /\ nops < MaxOps
    /\ \E p \in ExplicitFields : SetEntity(AddProperty(CurrentEntity, p))
    /\ Called("AddProperty")
    /\ UNCHANGED <<moreVars, extVars, rtype, data, prevObs, unmarshalVars, xmlVars, lockVars>>

CallAddOverlay ==
    /\ nops < MaxOps
    /\ \E o \in ExplicitOverlays :
          SetEntity(AddOverlay(CurrentEntity, o.value, o.pos, o.oType))
    /\ Called("AddOverlay")
    /\ UNCHANGED <<moreVars, extVars, rtype, data, prevObs, unmarshalVars, xmlVars, lockVars>>

CallAddLabel ==
    /\ nops < MaxOps
    /\ Len(Labels) < MaxLabels
    /\ \E title \in {sEmpty, sTitle} : SetEntity(AddLabel(CurrentEntity, title, sHello))
    /\ Called("AddLabel")
    /\ UNCHANGED <<moreVars, extVars, rtype, data, prevObs, unmarshalVars, xmlVars, lockVars>>

CallSetNote ==
    /\ nops < MaxOps
    /\ SetEntity(SetNote(CurrentEntity, sHello))
    /\ Called("SetNote")
    /\ UNCHANGED <<moreVars, extVars, rtype, data, prevObs, unmarshalVars, xmlVars, lockVars>>

\* err = e.Unmarshal(target)
CallUnmarshal ==
    /\ nops < MaxOps
    /\ LET r == EntityUnmarshal(CurrentEntity, rtype, data, rtype, target)
       IN  /\ target' = r.v
           /\ uerr' = r.err
           /\ ustatus' = r.status
    /\ target0' = target
    /\ Called("Unmarshal")
    /\ UNCHANGED <<moreVars, extVars, rtype, data, Properties, Overlays, Labels, insertOrder, prevObs,
                   xmlVars, lockVars>>

\* e.unmarshalStruct("", reflect.ValueOf(target).Elem(), nil)
CallUnmarshalStruct ==
    /\ nops < MaxOps
    /\ LET r == EntityUnmarshalWalk(CurrentEntity, rtype, data, rtype, target)
       IN  /\ target' = r.v
           /\ uerr' = r.err
           /\ ustatus' = r.status
    /\ target0' = target
    /\ Called("unmarshalStruct")
    /\ UNCHANGED <<moreVars, extVars, rtype, data, Properties, Overlays, Labels, insertOrder, prevObs,
                   xmlVars, lockVars>>

Next ==
    \/ CallGetGoProperties
    \/ CallAddProperty
    \/ CallAddOverlay
    \/ CallAddLabel
    \/ CallSetNote
    \/ CallUnmarshal
    \/ CallUnmarshalStruct

Spec == Init /\ [][Next]_vars

(***************************************************************************)
(* Properties of marshalling and unmarshalling                             *)
(***************************************************************************)

IsRecord == TypeDesc(rtype).kind = "struct"

JustMarshalled == IsRecord /\ lastOps[2] = "GetGoProperties"

JustUnmarshalled == IsRecord /\ lastOps[2] \in {"Unmarshal", "unmarshalStruct"}

\* An exported field that holds no record by value and carries the display tag
IsExposedLeaf(fd) == IsExported(fd.name) /\ HasTag(fd, "display") /\ fd.kind # "struct"

RECURSIVE AllDisplayed(_)
\* Every exported scalar field of the type, at any depth, carries the display tag
AllDisplayed(tid) ==
    \A i \in 1..NumField(tid) :
        LET fd == FieldsOf(tid)[i]
        IN  IsExported(fd.name) =>
                IF fd.kind = "struct" \/ (fd.kind = "ptr" /\ fd.elemKind = "struct")
                THEN AllDisplayed(fd.elemType)
                ELSE HasTag(fd, "display")

RECURSIVE ScalarsEqual(_, _, _)
\* Every exported scalar field of a, at any depth, equals the one of b
ScalarsEqual(tid, a, b) ==
    \A i \in 1..NumField(tid) :
        LET fd == FieldsOf(tid)[i]
        IN  IsExported(fd.name) =>
                CASE fd.kind = "struct" -> ScalarsEqual(fd.elemType, a[i], b[i])
                  [] fd.kind = "ptr"    -> TRUE
                  [] OTHER              -> a[i] = b[i]

\* C1 - Round trip: for a record type whose every exported scalar field is
\* displayed, GetGoProperties and then Entity.Unmarshal into a zero value of
\* the type yields a record whose every scalar field equals the marshalled one.
RoundTrip ==
    (/\ IsRecord
     /\ lastOps = <<"GetGoProperties", "Unmarshal">>
     /\ AllDisplayed(rtype)
     /\ target0 = ZeroOfType(rtype))
    => ScalarsEqual(rtype, target, data)

\* C2 - Idempotence: GetGoProperties called twice in succession leaves after
\* the second call the property set of the first: the same keys, and for each
\* key the same value, matching rule and alias.
Idempotence ==
    (IsRecord /\ lastOps = <<"GetGoProperties", "GetGoProperties">>)
    => Observe(Properties, rtype, data) = prevObs

\* The fields of a record type marked as base entities whose type has AsEntity
BaseFields(tid) ==
    {i \in 1..NumField(tid) :
        LET fd == FieldsOf(tid)[i]
        IN  /\ IsExported(fd.name)
            /\ HasTag(fd, "base")
            /\ fd.elemType # ""
            /\ TypeDesc(fd.elemType).receiver # "none"}

\* The base entity at field b and the record's own field j bring the same key
SameKey(b, j) ==
    /\ IsExposedLeaf(FieldsOf(rtype)[j])
    /\ getNamespace(sEmpty, FieldsOf(rtype)[j].name)
          \in DOMAIN AsEntity(FieldsOf(rtype)[b].elemType).Properties

\* C3 - Override on merge: when a base entity of the record and a field of the
\* record itself bring a property under the same key, the property set after
\* GetGoProperties holds the record's value under that key, not the base's.
OverrideOnMerge ==
    JustMarshalled =>
        \A b \in BaseFields(rtype), j \in 1..NumField(rtype) :
            SameKey(b, j) =>
                LET k    == getNamespace(sEmpty, FieldsOf(rtype)[j].name)
                    base == AsEntity(FieldsOf(rtype)[b].elemType)
                IN  /\ k \in DOMAIN Properties
                    /\ Properties[k].src = [o |-> "field", path |-> <<j>>]
                    /\ Properties[k].Value = RefVal(<<>>)
                    /\ Properties[k].Value # base.Properties[k].Value

\* A record with a base entity whose key its own field has overridden
OverrideOnMergeWitness ==
    /\ JustMarshalled
    /\ \E b \in BaseFields(rtype), j \in 1..NumField(rtype) :
          /\ SameKey(b, j)
          /\ Properties[getNamespace(sEmpty, FieldsOf(rtype)[j].name)].src.o = "field"

RECURSIVE FieldAt(_, _)
\* The field at a path of field indexes
FieldAt(tid, path) ==
    IF Len(path) = 1 THEN FieldsOf(tid)[path[1]]
    ELSE FieldAt(FieldsOf(tid)[path[1]].elemType, Tail(path))

RECURSIVE HiddenLeafKeys(_, _)
\* The keys the leaf fields that are unexported or carry no display tag would
\* have, at any depth of the record levels the marshaller visits
HiddenLeafKeys(namespace, tid) ==
    UNION { LET fd == FieldsOf(tid)[i]
            IN  IF fd.kind = "struct"
                THEN IF IsExported(fd.name)
                     THEN HiddenLeafKeys(getNamespace(namespace, fd.name), fd.elemType)
                     ELSE {}
                ELSE IF IsExposedLeaf(fd) THEN {}
                ELSE {getNamespace(namespace, fd.name)}
          : i \in 1..NumField(tid) }

\* The property was put there by the caller: AddProperty, SetNote
ByCaller(p) == p.src.o \in {"explicit", "note"}

IsMarker(p) == p.src.o = "marker"

FromExposedLeaf(p) == p.src.o = "field" /\ IsExposedLeaf(FieldAt(rtype, p.src.path))

FromBase(p) ==
    /\ p.src.o = "base"
    /\ HasTag(FieldAt(rtype, p.src.path), "base")

NoHiddenLeaf ==
    \A k \in HiddenLeafKeys(sEmpty, rtype) : k \notin DOMAIN Properties

\* C4 as stated - every property GetGoProperties produces is a marker of a
\* record level or comes from an exported leaf field with the display tag, and
\* no unexported or undisplayed leaf field brings a property.
UnexposedOmission ==
    JustMarshalled =>
        /\ \A k \in DOMAIN Properties :
              ByCaller(Properties[k]) \/ IsMarker(Properties[k])
                 \/ FromExposedLeaf(Properties[k])
        /\ NoHiddenLeaf

\* C4 - Unexposed field omission: every property GetGoProperties produces is
\* a marker of a record level, comes from an exported leaf field with the
\* display tag, or was copied from a base entity; no unexported or
\* undisplayed leaf field brings a property.
UnexposedOmissionWithBase ==
    JustMarshalled =>
        /\ \A k \in DOMAIN Properties :
              ByCaller(Properties[k]) \/ IsMarker(Properties[k])
                 \/ FromExposedLeaf(Properties[k]) \/ FromBase(Properties[k])
        /\ NoHiddenLeaf

\* A marshalled record with a field that is not displayed and brings no
\* property, beside the property of a displayed field and one of a base entity
UnexposedOmissionWitness ==
    /\ JustMarshalled
    /\ HiddenLeafKeys(sEmpty, rtype) # {}
    /\ \E k \in DOMAIN Properties : Properties[k].src.o = "field"
    /\ \E k \in DOMAIN Properties : Properties[k].src.o = "base"

\* Field i of the record has a property whose string the field's type refuses
CoercionFails(i) ==
    LET fd == FieldsOf(rtype)[i]
    IN  /\ IsExposedLeaf(fd)
        /\ fd.kind # "ptr"
        /\ \E k \in {lookupKey(sEmpty, fd.name), getNamespace(sEmpty, fd.name)} :
              /\ k \in DOMAIN Properties
              /\ convert(Property(CurrentEntity, k, rtype, data),
                         ShapeOfField(fd), target0[i]).err # "nil"

\* C5 - Unmarshal error propagation: when the string of a property does not
\* coerce into its field, the unmarshal call returns an error and populates
\* no later field.
ErrorPropagation ==
    JustUnmarshalled =>
        \A i \in 1..NumField(rtype) :
            CoercionFails(i) =>
                /\ uerr \in {"syntax", "range"}
                /\ \A j \in (i + 1)..NumField(rtype) : target[j] = target0[j]

ExplicitOverridesDerived ==
    JustMarshalled =>
        \A i \in 1..NumField(rtype) :
            LET fd == FieldsOf(rtype)[i]
                k  == getNamespace(sEmpty, fd.name)
            IN  (/\ IsExposedLeaf(fd)
                 /\ fd.name \in DOMAIN Properties
                 /\ Properties[fd.name].src.o = "explicit")
                => (k # fd.name => k \notin DOMAIN Properties)

\* C10 - Matching rule: the property of an exposed leaf field is strict
\* exactly when the field carries the strict tag with a non-empty value.
MatchingRuleFromStrict ==
    JustMarshalled =>
        \A i \in 1..NumField(rtype) :
            LET fd == FieldsOf(rtype)[i]
                k  == getNamespace(sEmpty, fd.name)
            IN  (/\ IsExposedLeaf(fd)
                 /\ k \in DOMAIN Properties
                 /\ Properties[k].src = [o |-> "field", path |-> <<i>>])
                => Properties[k].MatchingRule = matchingRuleFromStrictTag(fd)

(***************************************************************************)
(* Properties.MarshalXML                                                   *)
(***************************************************************************)

RECURSIVE RangeOrders(_)
\* The orders in which a range over a Go map with these keys may yield them:
\* the language leaves the order unspecified and the runtime randomises it.
RangeOrders(keys) ==
    IF keys = {} THEN {<<>>}
    ELSE UNION { {<<k>> \o s : s \in RangeOrders(keys \ {k})} : k \in keys }

\* MarshalXML - Properties implement the xml.Marshaller interface: nothing
\* for an empty map, else the start token, each property as the range over
\* the map yields it, the end token.
MarshalXML(p, order) ==
    IF Cardinality(DOMAIN p) = 0 THEN NoXML
    ELSE [started |-> TRUE,
          fields  |-> [i \in 1..Len(order) |-> p[order[i]].Name],
          ended   |-> TRUE]

CallMarshalXML ==
    /\ nops < MaxOps
    /\ \E order \in RangeOrders(DOMAIN Properties) :
          xmlOut' = MarshalXML(Properties, order)
    /\ xmlPrev' = xmlOut
    /\ Called("MarshalXML")
    /\ UNCHANGED <<moreVars, extVars, rtype, data, Properties, Overlays, Labels, insertOrder, prevObs,
                   unmarshalVars, lockVars>>

\* The Entities serialised: those of the records of the repository
InitXML ==
    /\ Init
    /\ rtype \in {"Target", "Credential"}
    /\ target = ZeroOfType(rtype)

NextXML ==
    \/ CallGetGoProperties
    \/ CallAddProperty
    \/ CallSetNote
    \/ CallMarshalXML

SpecXML == InitXML /\ [][NextXML]_vars

\* C8 - Insertion order: Properties.MarshalXML emits the properties in the
\* order in which their keys were first added, and serialising the unchanged
\* set a second time yields the same sequence.
InsertionOrder ==
    lastOps[2] = "MarshalXML" =>
        /\ xmlOut.fields = insertOrder
        /\ lastOps[1] = "MarshalXML" => xmlOut = xmlPrev

(***************************************************************************)
(* The Entity lock: goroutines calling the operations of one Entity        *)
(***************************************************************************)

\* The operations of the Entity that take its mutex
EntityOps == {"AddProperty", "AddOverlay", "AddLabel", "SetNote", "Property"}

\* What an operation writes to
Written(op) ==
    CASE op \in {"AddProperty", "SetNote"} -> "Properties"
      [] op = "AddOverlay"                 -> "Overlays"
      [] op = "AddLabel"                   -> "Labels"
      [] OTHER                             -> "nothing"

\* Another goroutine is writing to what g writes to
Racing(g) ==
    \E h \in Goroutines \ {g} :
        gor[h].pc = "write" /\ Written(gor[h].op) = Written(gor[g].op)

\* How a write may end: alone it is done; racing with another write, a map
\* write may end the program (fatal error: concurrent map writes) and an
\* append may be lost.
WriteOutcomes(g) ==
    IF ~Racing(g) THEN {"done"}
    ELSE IF Written(gor[g].op) = "Labels" THEN {"done", "lost"}
    ELSE {"done", "fatal"}

\* The Entity after the write of an operation
Writes(op) ==
    CASE op = "AddProperty" -> {AddProperty(CurrentEntity, p) : p \in ExplicitFields}
      [] op = "AddOverlay"  ->
            {AddOverlay(CurrentEntity, o.value, o.pos, o.oType) : o \in ExplicitOverlays}
      [] op = "AddLabel"    -> {AddLabel(CurrentEntity, sEmpty, sHello)}
      [] op = "SetNote"     -> {SetNote(CurrentEntity, sHello)}

\* A goroutine calls an operation of the Entity
GoCall ==
    \E g \in Goroutines, op \in EntityOps :
        /\ ~fatal
        /\ gor[g].pc = "idle"
        /\ gor[g].calls < MaxCalls
        /\ gor' = [gor EXCEPT ![g] = [pc    |-> IF op = "Property" THEN "Lock" ELSE "RLock",
                                      op    |-> op,
                                      calls |-> @.calls + 1]]
        /\ UNCHANGED <<moreVars, extVars, rtype, data, Properties, Overlays, Labels, insertOrder, lastOps,
                       prevObs, nops, unmarshalVars, xmlVars, mutex, fatal>>

\* e.mutex.RLock(): waits while a writer holds the lock or waits for it.
\* SetNote calls AddProperty with the lock held, which takes it again.
RLock ==
    \E g \in Goroutines :
        /\ ~fatal
        /\ gor[g].pc \in {"RLock", "AddProperty.RLock"}
        /\ mutex.writer = "none"
        /\ mutex' = [mutex EXCEPT !.readers[g] = @ + 1]
        /\ gor' = [gor EXCEPT ![g].pc =
                      IF gor[g].op = "SetNote" /\ gor[g].pc = "RLock"
                      THEN "AddProperty.RLock" ELSE "write"]
        /\ UNCHANGED <<moreVars, extVars, rtype, data, Properties, Overlays, Labels, insertOrder, lastOps,
                       prevObs, nops, unmarshalVars, xmlVars, fatal>>

\* The write of AddProperty, AddOverlay, AddLabel
EntityWrite ==
    \E g \in Goroutines :
        /\ ~fatal
        /\ gor[g].pc = "write"
        /\ \E outcome \in WriteOutcomes(g) :
              /\ fatal' = (outcome = "fatal")
              /\ IF outcome = "done"
                 THEN \E E \in Writes(gor[g].op) : SetEntity(E)
                 ELSE UNCHANGED <<Properties, Overlays, Labels, insertOrder>>
        /\ gor' = [gor EXCEPT ![g].pc =
                      IF gor[g].op = "SetNote" THEN "AddProperty.RUnlock" ELSE "RUnlock"]
        /\ UNCHANGED <<moreVars, extVars, rtype, data, lastOps, prevObs, nops, unmarshalVars, xmlVars, mutex>>

\* defer e.mutex.RUnlock()
RUnlock ==
    \E g \in Goroutines :
        /\ ~fatal
        /\ gor[g].pc \in {"RUnlock", "AddProperty.RUnlock"}
        /\ mutex' = [mutex EXCEPT !.readers[g] = @ - 1]
        /\ gor' = [gor EXCEPT ![g].pc =
                      IF gor[g].pc = "AddProperty.RUnlock" THEN "RUnlock" ELSE "idle"]
        /\ UNCHANGED <<moreVars, extVars, rtype, data, Properties, Overlays, Labels, insertOrder, lastOps,
                       prevObs, nops, unmarshalVars, xmlVars, fatal>>

\* e.mutex.Lock() of Property: the writer announces itself, which holds new
\* readers back, ...
Lock ==
    \E g \in Goroutines :
        /\ ~fatal
        /\ gor[g].pc = "Lock"
        /\ mutex.writer = "none"
        /\ mutex' = [mutex EXCEPT !.writer = g]
        /\ gor' = [gor EXCEPT ![g].pc = "Lock.wait"]
        /\ UNCHANGED <<moreVars, extVars, rtype, data, Properties, Overlays, Labels, insertOrder, lastOps,
                       prevObs, nops, unmarshalVars, xmlVars, fatal>>

\* ... and has the lock once the readers that held it have left
LockAcquired ==
    \E g \in Goroutines :
        /\ ~fatal
        /\ gor[g].pc = "Lock.wait"
        /\ \A h \in Goroutines : mutex.readers[h] = 0
        /\ gor' = [gor EXCEPT ![g].pc = "read"]
        /\ UNCHANGED <<moreVars, extVars, rtype, data, Properties, Overlays, Labels, insertOrder, lastOps,
                       prevObs, nops, unmarshalVars, xmlVars, mutex, fatal>>

\* The lookup of Property
EntityRead ==
    \E g \in Goroutines :
        /\ ~fatal
        /\ gor[g].pc = "read"
        /\ gor' = [gor EXCEPT ![g].pc = "Unlock"]
        /\ UNCHANGED <<moreVars, extVars, rtype, data, Properties, Overlays, Labels, insertOrder, lastOps,
                       prevObs, nops, unmarshalVars, xmlVars, mutex, fatal>>

\* defer e.mutex.Unlock()
Unlock ==
    \E g \in Goroutines :
        /\ ~fatal
        /\ gor[g].pc = "Unlock"
        /\ mutex' = [mutex EXCEPT !.writer = "none"]
        /\ gor' = [gor EXCEPT ![g].pc = "idle"]
        /\ UNCHANGED <<moreVars, extVars, rtype, data, Properties, Overlays, Labels, insertOrder, lastOps,
                       prevObs, nops, unmarshalVars, xmlVars, fatal>>

\* One Entity, of a Credential, shared by the goroutines
InitLock ==
    /\ Init
    /\ rtype = "Credential"
    /\ target = ZeroOfType(rtype)

NextLock ==
    \/ GoCall
    \/ RLock
    \/ EntityWrite
    \/ RUnlock
    \/ Lock
    \/ LockAcquired
    \/ EntityRead
    \/ Unlock

SpecLock == InitLock /\ [][NextLock]_vars

\* The goroutine is inside the lock
Holds(g) ==
    \/ mutex.readers[g] > 0
    \/ mutex.writer = g /\ gor[g].pc \in {"read", "Unlock"}

\* C7 - Mutual exclusion on one Entity: no two goroutines are at the same
\* time inside the critical sections of AddProperty, AddOverlay, AddLabel,
\* SetNote and Property; a write never overlaps another write or a read.
MutualExclusion ==
    \A g, h \in Goroutines :
        g # h =>
            /\ ~(Holds(g) /\ Holds(h))
            /\ ~(gor[g].pc = "write" /\ gor[h].pc \in {"write", "read"})

(***************************************************************************)
(* The overlay of a record field: marshalProperties on one exposed field   *)
(* that carries an overlay tag                                             *)
(***************************************************************************)

sComma == <<",">>

sLowerN == <<"n">>

sNorthEast == <<"N","E">>

sColor == <<"c","o","l","o","r">>

\* What an overlay tag may give as its position and as its kind
TagPositions ==
    {OverlayNorth, OverlaySouth, OverlayWest, OverlayNorthWest, OverlaySouthWest,
     OverlayCenter, sEmpty, sX, sLowerN, sNorthEast}

TagKinds == {OverlayText, OverlayImage, OverlayColour, sEmpty, sX, sColor}

\* The tag `overlay:"position"` or `overlay:"position,kind"`
OverlayTag(pos, hasKind, kind) == IF hasKind THEN pos \o sComma \o kind ELSE pos

\* An exposed string field with an overlay tag
OverlaidField(name, tag) ==
    Fld(name, "string", [display |-> sEmpty, overlay |-> tag], StringDom)

\* marshalProperties on a field that is displayed and is no record: the
\* Field is made and added, then its overlay
marshalField(E, namespace, fd) ==
    LET f == leafField(namespace, fd, <<>>, 1)
    IN  addFieldAsOverlay(AddProperty(E, f), f, TagValue(fd, "overlay"))

CallMarshalField ==
    /\ ~ovl.called
    /\ SetEntity(marshalField(CurrentEntity, ovl.namespace, ovl.fd))
    /\ ovl' = [ovl EXCEPT !.before = Overlays, !.called = TRUE]
    /\ Called("marshalProperties")
    /\ UNCHANGED <<moreVars, rtype, data, prevObs, unmarshalVars, xmlVars, lockVars,
                   conv, transform, server, link>>

\* An Entity of a Credential or of a Target, and a field of any tag
InitOverlay ==
    /\ EntityInit
    /\ MoreIdle
    /\ rtype \in {"Credential", "Target"}
    /\ target = ZeroOfType(rtype)
    /\ \E name \in {sLogin, sPublicKey}, namespace \in {sEmpty, sCredential},
          pos \in TagPositions, hasKind \in BOOLEAN, kind \in TagKinds :
          /\ ~hasKind => kind = sEmpty
          /\ ovl = [fd |-> OverlaidField(name, OverlayTag(pos, hasKind, kind)),
                    namespace |-> namespace, pos |-> pos, hasKind |-> hasKind,
                    kind |-> kind, before |-> <<>>, called |-> FALSE]
    /\ conv = NoConvert
    /\ transform = NoTransform
    /\ server = NoServer
    /\ link = NoLink

NextOverlay == CallMarshalField

SpecOverlay == InitOverlay /\ [][NextOverlay]_vars

\* The positions and the kinds an overlay may have
ValidPositions == {<<"N">>, <<"S">>, <<"W">>, <<"N","W">>, <<"S","W">>, <<"C">>}

ValidKinds == {<<"t","e","x","t">>, <<"i","m","a","g","e">>, <<"c","o","l","o","u","r">>}

\* The key of the property made for the field
KeyOfField == getNamespace(ovl.namespace, ovl.fd.name)

SliceOf(kind) == [kind |-> "slice", elemKind |-> kind, elemType |-> ""]

ScalarShape(kind) == [kind |-> kind, elemKind |-> "", elemType |-> ""]

ConvertShapes ==
    {ScalarShape("string"), ScalarShape("bool"), ScalarShape("int8"), ScalarShape("uint8"),
     ScalarShape("map"), SliceOf("string"), SliceOf("int8"), SliceOf("bool")}

\* What a target of the shape may hold before the call
TargetsOf(td) ==
    CASE td.kind = "string" -> StringDom
      [] td.kind = "bool"   -> BoolDom
      [] td.kind \in {"int8", "uint8"} -> Int8Dom
      [] td.kind = "map"    -> MapDom
      [] td.kind = "slice"  -> {<<>>, <<ZeroOfShape(ElemShape(td))>>}

\* The strings handed to convert
ConvertStrings ==
    {<<>>, <<"t","r","u","e">>, <<"f","a","l","s","e">>, <<"T">>, <<"x">>, <<"5">>,
     <<"+","5">>, <<"-","5">>, <<"1","2","7">>, <<"1","2","8">>, <<"-","1","2","8">>,
     <<"-","1","2","9">>, <<"2","5","6">>, <<"9","9","9","9","9">>,
     <<"a",":","1">>, <<"b",":","2">>, <<"a",":","2">>, <<"a">>, <<"a",":","b",":","c">>}

\* The number of strings converted into one target
MaxConverts == 2

RECURSIVE SeqsOf(_, _)
SeqsOf(S, n) ==
    IF n = 0 THEN {<<>>} ELSE {Append(s, x) : s \in SeqsOf(S, n - 1), x \in S}

\* err := convert(val, retval)
CallConvert ==
    /\ conv.vals # <<>>
    /\ LET r == convert(Head(conv.vals), conv.td, conv.cur)
       IN  conv' = [conv EXCEPT !.cur = r.val, !.cur0 = conv.cur, !.err = r.err,
                                !.vals = Tail(conv.vals),
                                !.done = Append(conv.done, Head(conv.vals))]
    /\ UNCHANGED <<moreVars, rtype, data, Properties, Overlays, Labels, insertOrder, lastOps,
                   prevObs, nops, unmarshalVars, xmlVars, lockVars,
                   ovl, transform, server, link>>

InitConvert ==
    /\ EntityInit
    /\ MoreIdle
    /\ rtype = "RawString"
    /\ target = ZeroOfType(rtype)
    /\ ovl = NoField
    /\ \E td \in ConvertShapes, vals \in SeqsOf(ConvertStrings, MaxConverts) :
       \E cur \in TargetsOf(td) :
          conv = [td |-> td, start |-> cur, cur |-> cur, cur0 |-> cur,
                  vals |-> vals, done |-> <<>>, err |-> "none"]
    /\ transform = NoTransform
    /\ server = NoServer
    /\ link = NoLink

NextConvert == CallConvert

SpecConvert == InitConvert /\ [][NextConvert]_vars

\* The string of the last call
LastVal == conv.done[Len(conv.done)]

Converted == conv.done # <<>>

\* The text is a base-10 number with an optional sign, and its value
IsNumber(s) ==
    /\ s # <<>>
    /\ AllDigits(IF Head(s) \in {"+", "-"} THEN Tail(s) ELSE s)

ValueOf(s) ==
    IF Head(s) = "-" THEN 0 - DigitsToNat(Tail(s), 0)
    ELSE IF Head(s) = "+" THEN DigitsToNat(Tail(s), 0)
    ELSE DigitsToNat(s, 0)

\* The values an integer of the kind holds
RangeOf(kind) == IF kind = "int8" THEN -128..127 ELSE 0..255

\* What a string is as a scalar of the kind: a value, or the error that
\* refuses it.  An unsigned integer takes no sign.
Coerced(kind, s) ==
    CASE kind = "string" -> [err |-> "nil", val |-> s]
      [] kind = "bool" ->
            IF s = <<>> \/ s \in TrueStrings THEN [err |-> "nil", val |-> TRUE]
            ELSE IF s \in FalseStrings THEN [err |-> "nil", val |-> FALSE]
            ELSE [err |-> "syntax", val |-> FALSE]
      [] kind \in {"int8", "uint8"} ->
            IF ~IsNumber(s) \/ (kind = "uint8" /\ ~AllDigits(s))
            THEN [err |-> "syntax", val |-> 0]
            ELSE IF ValueOf(s) \notin RangeOf(kind) THEN [err |-> "range", val |-> 0]
            ELSE [err |-> "nil", val |-> ValueOf(s)]

\* C12 - Boolean coercion: convert into a boolean target gives true for the
\* empty string, gives for a non-empty string the boolean the string
\* denotes, and for any other non-empty string returns an error and leaves
\* the target unchanged.
BooleanCoercion ==
    (Converted /\ conv.td.kind = "bool") =>
        /\ LastVal = <<>> => (conv.err = "nil" /\ conv.cur = TRUE)
        /\ LastVal = <<"t","r","u","e">> => (conv.err = "nil" /\ conv.cur = TRUE)
        /\ LastVal = <<"f","a","l","s","e">> => (conv.err = "nil" /\ conv.cur = FALSE)
        /\ IF Coerced("bool", LastVal).err = "nil"
           THEN conv.err = "nil" /\ conv.cur = Coerced("bool", LastVal).val
           ELSE conv.err # "nil" /\ conv.cur = conv.cur0

\* A string that denotes no boolean has been refused, after "false" had
\* been converted into a target that held true.
BooleanCoercionWitness ==
    /\ conv.td.kind = "bool"
    /\ conv.start = TRUE
    /\ conv.done = << <<"f","a","l","s","e">>, <<"x">> >>
    /\ conv.err = "syntax"
    /\ conv.cur = FALSE

\* C13 as stated - Integer range check: convert into a signed or unsigned
\* integer target of width W returns a range error and leaves the target
\* unchanged whenever the base-10 value of the string lies outside what W
\* bits can represent, returns a parse error on non-numeric text, and
\* otherwise sets the target to exactly the parsed value.
IntegerRangeCheck ==
    (Converted /\ conv.td.kind \in {"int8", "uint8"}) =>
        IF ~IsNumber(LastVal) THEN conv.err = "syntax" /\ conv.cur = conv.cur0
        ELSE IF ValueOf(LastVal) \notin RangeOf(conv.td.kind)
             THEN conv.err = "range" /\ conv.cur = conv.cur0
        ELSE conv.err = "nil" /\ conv.cur = ValueOf(LastVal)

\* C13 - Integer range check, by signedness: a signed target takes an optional
\* sign, an unsigned target takes digits only and meets any sign with a
\* parse error; convert returns a parse error on what is no such number, a
\* range error when the number lies outside what W bits can represent, the
\* target being unchanged in both cases, and otherwise sets the target to
\* exactly the parsed value.
IntegerRangeCheckBySignedness ==
    (Converted /\ conv.td.kind \in {"int8", "uint8"}) =>
        LET c == Coerced(conv.td.kind, LastVal)
        IN  IF c.err = "nil" THEN conv.err = "nil" /\ conv.cur = c.val
            ELSE conv.err = c.err /\ conv.cur = conv.cur0

\* "99999" has been refused with a range error by an 8-bit signed target
\* that held 5.
IntegerRangeCheckWitness ==
    /\ conv.td.kind = "int8"
    /\ conv.start = 5
    /\ conv.done = << <<"9","9","9","9","9">> >>
    /\ conv.err = "range"
    /\ conv.cur = 5

\* The parts of a string before and after its first ':'
KeyPart(s) == IF IndexOf(s, ":", 1) = 0 THEN s ELSE SubSeq(s, 1, IndexOf(s, ":", 1) - 1)

ValuePart(s) ==
    IF IndexOf(s, ":", 1) = 0 THEN <<>> ELSE SubSeq(s, IndexOf(s, ":", 1) + 1, Len(s))

\* C14 - Map accumulation: successive convert calls into the same mapping
\* target accumulate entries: each call splits its string on the first ':'
\* only (the value is empty when there is no ':'), inserts or overwrites
\* exactly the entry for that key, leaves every other entry unchanged and
\* initialises the mapping when it is nil; "a:1" followed by "b:2" gives
\* {a:1, b:2}.
MapAccumulation ==
    (Converted /\ conv.td.kind = "map") =>
        /\ conv.err = "nil"
        /\ ~conv.cur.isNil
        /\ conv.cur.kv = (KeyPart(LastVal) :> ValuePart(LastVal)) @@ conv.cur0.kv
        /\ (conv.start.isNil /\ conv.done = << <<"a",":","1">>, <<"b",":","2">> >>) =>
              conv.cur.kv = (<<"a">> :> <<"1">>) @@ (<<"b">> :> <<"2">>)

\* "a:b:c" then "a" have been converted into a nil mapping: the first made
\* the mapping with a: "b:c", the second overwrote the entry with "".
MapAccumulationWitness ==
    /\ conv.td.kind = "map"
    /\ conv.start.isNil
    /\ conv.done = << <<"a",":","b",":","c">>, <<"a">> >>
    /\ conv.cur0.kv = (<<"a">> :> <<"b",":","c">>)
    /\ conv.cur.kv = (<<"a">> :> <<>>)

\* C15 - Sequence coercion: each successful convert call on a sequence target
\* appends exactly one element, coerced from the string into the element
\* shape, after the existing elements, which stay unchanged and in order;
\* when the element coercion fails the call returns the error and the
\* sequence is unchanged.
SequenceCoercion ==
    (Converted /\ conv.td.kind = "slice") =>
        LET c == Coerced(conv.td.elemKind, LastVal)
        IN  IF c.err = "nil"
            THEN conv.err = "nil" /\ conv.cur = Append(conv.cur0, c.val)
            ELSE conv.err = c.err /\ conv.cur = conv.cur0

\* "5" has been appended to a sequence of 8-bit integers that held one
\* element, then "x" has been refused.
SequenceCoercionWitness ==
    /\ conv.td = SliceOf("int8")
    /\ conv.start = <<0>>
    /\ conv.done = << <<"5">>, <<"x">> >>
    /\ conv.err = "syntax"
    /\ conv.cur = <<0, 5>>

(***************************************************************************)
(* A Transform instance serving one request: the calls its function makes  *)
(* on it, and the response the handler builds when the function returns    *)
(***************************************************************************)

\* The limit of output entities a request may carry (Message.Slider)
MaxSlider == 2

\* The number of calls a transform function makes on its Transform
MaxRunCalls == 3

\* The entities a transform function adds
OutputEntities == {"target", "credential"}

\* The errors a transform function makes, with Errorf or by itself
RunErrors == {"lookup failed", "bad input"}

\* The levels of Debugf, Infof and Warnf
MessageTypes == {"Debug", "Inform", "Partial"}

\* The message before marshalOutput has filled it
NoResponse ==
    [built |-> FALSE,
     Response |-> [Entities |-> <<>>, Messages |-> <<>>],
     Exception |-> [Exceptions |-> <<>>]]

\* newInstanceFromRequest - a new instance with the request and nothing else.
\* entities0, arg, last, added, runErr and calls are history.
newInstanceFromRequest(slider) ==
    [pc |-> "run", Slider |-> slider, entities |-> <<>>, messages |-> <<>>,
     exceptions |-> <<>>, entities0 |-> <<>>, arg |-> "none", last |-> "none",
     added |-> <<>>, runErr |-> "none", calls |-> 0, response |-> NoResponse]

\* The builtin append(s, elems...)
append(s, elems) == s \o elems

\* AddEntity - nothing when the limit is reached; else append(t.entities),
\* which is given no element to append
AddEntity(t, e) ==
    IF t.Slider = Len(t.entities) THEN t.entities ELSE append(t.entities, <<>>)

\* marshalOutput - the exceptions when the run failed, the entities and the
\* UI messages when it did not
marshalOutput(t, runErr) ==
    [built |-> TRUE,
     Response |-> IF runErr = "nil"
                  THEN [Entities |-> t.entities, Messages |-> t.messages]
                  ELSE NoResponse.Response,
     Exception |-> IF runErr # "nil"
                   THEN [Exceptions |-> t.exceptions]
                   ELSE NoResponse.Exception]

\* The transform function is running and makes one more call
Running ==
    /\ transform.pc = "run"
    /\ transform.calls < MaxRunCalls

\* t.AddEntity(e)
CallAddEntity ==
    /\ Running
    /\ \E e \in OutputEntities :
          transform' = [transform EXCEPT
              !.entities = AddEntity(transform, e),
              !.entities0 = transform.entities,
              !.arg = e,
              !.last = "AddEntity",
              !.added = IF Len(@) < transform.Slider THEN Append(@, e) ELSE @,
              !.calls = @ + 1]
    /\ UNCHANGED <<moreVars, rtype, data, Properties, Overlays, Labels, insertOrder, lastOps,
                   prevObs, nops, unmarshalVars, xmlVars, lockVars,
                   ovl, conv, server, link>>

\* t.Debugf(...), t.Infof(...), t.Warnf(...)
CallLogf ==
    /\ Running
    /\ \E type \in MessageTypes :
          transform' = [transform EXCEPT
              !.messages = Append(@, [Text |-> "message", Type |-> type]),
              !.last = "Logf",
              !.calls = @ + 1]
    /\ UNCHANGED <<moreVars, rtype, data, Properties, Overlays, Labels, insertOrder, lastOps,
                   prevObs, nops, unmarshalVars, xmlVars, lockVars,
                   ovl, conv, server, link>>

\* t.Errorf(...), whose error the function does not return at once
CallErrorf ==
    /\ Running
    /\ \E msg \in RunErrors :
          transform' = [transform EXCEPT
              !.exceptions = Append(@, msg),
              !.last = "Errorf",
              !.calls = @ + 1]
    /\ UNCHANGED <<moreVars, rtype, data, Properties, Overlays, Labels, insertOrder, lastOps,
                   prevObs, nops, unmarshalVars, xmlVars, lockVars,
                   ovl, conv, server, link>>

\* The function returns, nil or an error, and transformHandler marshals the
\* output: err = transform.run(instance); instance.marshalOutput(err)
RunReturns ==
    /\ transform.pc = "run"
    /\ \E err \in {"nil"} \cup RunErrors :
          transform' = [transform EXCEPT
              !.pc = "done",
              !.last = "return",
              !.runErr = err,
              !.response = marshalOutput(transform, err)]
    /\ UNCHANGED <<moreVars, rtype, data, Properties, Overlays, Labels, insertOrder, lastOps,
                   prevObs, nops, unmarshalVars, xmlVars, lockVars,
                   ovl, conv, server, link>>

InitTransform ==
    /\ EntityInit
    /\ MoreIdle
    /\ rtype = "RawString"
    /\ target = ZeroOfType(rtype)
    /\ ovl = NoField
    /\ conv = NoConvert
    /\ transform \in {newInstanceFromRequest(slider) : slider \in 0..MaxSlider}
    /\ server = NoServer
    /\ link = NoLink

NextTransform ==
    \/ CallAddEntity
    \/ CallLogf
    \/ CallErrorf
    \/ RunReturns

SpecTransform == InitTransform /\ [][NextTransform]_vars

\* C16 - Transform.AddEntity(e) adds e to the entities sent in the response:
\* whenever the output list holds fewer entities than the request's Slider
\* limit, after the call the list is one longer and ends with e, and after a
\* run that returns no error the response's Entities are exactly the
\* entities added, in call order.
AddEntityAppends ==
    /\ (transform.last = "AddEntity" /\ Len(transform.entities0) < transform.Slider) =>
          transform.entities = Append(transform.entities0, transform.arg)
    /\ (transform.response.built /\ transform.runErr = "nil") =>
          transform.response.Response.Entities = transform.added

\* C17 - Any error returned by the transform function is translated into a
\* Maltego transform exception: whenever the function returns a non-nil
\* error, the response built by marshalOutput contains an exception carrying
\* that error, also when the function never called Errorf.
ErrorBecomesException ==
    (transform.response.built /\ transform.runErr # "nil") =>
        \E i \in DOMAIN transform.response.Exception.Exceptions :
            transform.response.Exception.Exceptions[i] = transform.runErr

\* C18 - Non-terminating exceptions are passed along with the other output:
\* the exceptions recorded with Errorf during a run whose function returns a
\* nil error are in the response, with the output entities and UI messages.
ExceptionsPassedAlong ==
    (transform.response.built /\ transform.runErr = "nil") =>
        /\ transform.response.Exception.Exceptions = transform.exceptions
        /\ transform.response.Response.Entities = transform.entities
        /\ transform.response.Response.Messages = transform.messages

(***************************************************************************)
(* The TransformServer: NewTransformServer, RegisterTransform,             *)
(* GetTransform                                                            *)
(***************************************************************************)

\* The number of calls made on a TransformServer
MaxServerCalls == 3

sTransformNamespace ==
    <<"t","r","a","n","s","f","o","r","m",".","N","a","m","e","s","p","a","c","e">>

\* The transforms a program declares: TransformInfo.Namespace and Name
UserTransforms ==
    {[Namespace |-> ns, Name |-> name] : ns \in {sA, sB, sNet}, name \in {sX, sN, sM}}

\* The URL path of a transform: its complete namespace and its name
TransformPath(t) == Join2(t.Namespace, t.Name, Dot)

\* The paths GetTransform is called with
RequestPaths == {TransformPath(t) : t \in UserTransforms} \cup {sTransformNamespace}

\* NewTransformServer - the transforms map is not made; mux is a new
\* ServeMux.  registered and log are history: the transforms registered and
\* the calls made.
NewTransformServer ==
    [pc |-> "up", transforms |-> NilMap, mux |-> {}, registered |-> <<>>,
     log |-> <<>>]

\* GetTransform - ts.transforms[path]: a pointer, nil when there is no entry
GetTransform(ts, path) ==
    IF path \in DOMAIN ts.transforms.kv THEN <<ts.transforms.kv[path]>> ELSE <<>>

\* RegisterTransform - ts.transforms["transform.Namespace"] = t, then
\* ts.mux.HandleFunc("transform.Namespace", ts.transformHandler).  An
\* assignment to an entry of a nil map panics, and so does ServeMux when a
\* pattern is registered twice.
RegisterTransform(ts, t) ==
    IF ts.transforms.isNil THEN [ts EXCEPT !.pc = "panic"]
    ELSE IF sTransformNamespace \in ts.mux
    THEN [ts EXCEPT !.pc = "panic",
                    !.transforms.kv = (sTransformNamespace :> t) @@ @]
    ELSE [ts EXCEPT !.transforms.kv = (sTransformNamespace :> t) @@ @,
                    !.mux = @ \cup {sTransformNamespace}]

\* server.RegisterTransform(&t), for a transform not registered before
CallRegisterTransform ==
    /\ server.pc = "up"
    /\ Len(server.log) < MaxServerCalls
    /\ \E t \in UserTransforms :
          /\ \A i \in DOMAIN server.registered : server.registered[i] # t
          /\ server' = [RegisterTransform(server, t) EXCEPT
                            !.registered = Append(@, t),
                            !.log = Append(@, [op |-> "RegisterTransform",
                                               path |-> TransformPath(t),
                                               result |-> <<>>])]
    /\ UNCHANGED <<moreVars, rtype, data, Properties, Overlays, Labels, insertOrder, lastOps,
                   prevObs, nops, unmarshalVars, xmlVars, lockVars,
                   ovl, conv, transform, link>>

\* transform := ts.GetTransform(r.URL.Path)
CallGetTransform ==
    /\ server.pc = "up"
    /\ Len(server.log) < MaxServerCalls
    /\ \E path \in RequestPaths :
          server' = [server EXCEPT
                        !.log = Append(@, [op |-> "GetTransform", path |-> path,
                                           result |-> GetTransform(server, path)])]
    /\ UNCHANGED <<moreVars, rtype, data, Properties, Overlays, Labels, insertOrder, lastOps,
                   prevObs, nops, unmarshalVars, xmlVars, lockVars,
                   ovl, conv, transform, link>>

InitServer ==
    /\ EntityInit
    /\ MoreIdle
    /\ rtype = "RawString"
    /\ target = ZeroOfType(rtype)
    /\ ovl = NoField
    /\ conv = NoConvert
    /\ transform = NoTransform
    /\ server = NewTransformServer
    /\ link = NoLink

NextServer ==
    \/ CallRegisterTransform
    \/ CallGetTransform

SpecServer == InitServer /\ [][NextServer]_vars

\* C19 - Transform registration: after any sequence of RegisterTransform
\* calls for distinct transforms on a server made by NewTransformServer,
\* every call has completed without failure and each registered transform
\* is returned by GetTransform for its own path, derived from its namespace
\* and name; a later registration never replaces an earlier, different
\* transform.
RegistrationKept ==
    /\ server.pc # "panic"
    /\ \A i \in DOMAIN server.registered :
          GetTransform(server, TransformPath(server.registered[i]))
              = <<server.registered[i]>>

(***************************************************************************)
(* The Link of an Entity                                                   *)
(***************************************************************************)

\* The number of statements a program runs on one Link
MaxLinkCalls == 3

InputToOutputLink == "input-to-output"

OutputToInputLink == "output-to-input"

Bidirectional == "bidirectional"

\* The Link of a new Entity: every field has its zero value
ZeroLink ==
    [Name |-> "", Style |-> 0, Thickness |-> 0, ShowLabel |-> 0, Color |-> "",
     Direction |-> ""]

\* e.Link, with the history of the statements run on it: Link0 is e.Link
\* before the last statement, l the receiver when the last method returned.
NewLink ==
    [Link |-> ZeroLink, Link0 |-> ZeroLink, l |-> ZeroLink, last |-> "none",
     calls |-> 0]

\* Reverse - l.Direction = OutputToInputLink, l being the receiver
Reverse(l) == [l EXCEPT !.Direction = OutputToInputLink]

\* e.Link.Reverse(): the receiver is a copy of e.Link, the method sets the
\* Direction of the copy, and the copy is dropped when it returns
CallReverse ==
    /\ link.calls < MaxLinkCalls
    /\ link' = [link EXCEPT !.l = Reverse(link.Link), !.Link0 = link.Link,
                            !.last = "Reverse", !.calls = @ + 1]
    /\ UNCHANGED <<moreVars, rtype, data, Properties, Overlays, Labels, insertOrder, lastOps,
                   prevObs, nops, unmarshalVars, xmlVars, lockVars,
                   ovl, conv, transform, server>>

\* e.Link.Color = "#43eb36", and the like for the other exported fields
SetLinkField ==
    /\ link.calls < MaxLinkCalls
    /\ \E f \in {"Color", "Direction", "Style", "Name"} :
       \E x \in CASE f = "Color" -> {"#43eb36"}
                  [] f = "Direction" -> {InputToOutputLink, OutputToInputLink, Bidirectional}
                  [] f = "Style" -> {1, 2}
                  [] f = "Name" -> {"owns"} :
          link' = [link EXCEPT !.Link[f] = x, !.Link0 = link.Link,
                               !.last = f, !.calls = @ + 1]
    /\ UNCHANGED <<moreVars, rtype, data, Properties, Overlays, Labels, insertOrder, lastOps,
                   prevObs, nops, unmarshalVars, xmlVars, lockVars,
                   ovl, conv, transform, server>>

InitLink ==
    /\ EntityInit
    /\ MoreIdle
    /\ rtype = "RawString"
    /\ target = ZeroOfType(rtype)
    /\ ovl = NoField
    /\ conv = NoConvert
    /\ transform = NoTransform
    /\ server = NoServer
    /\ link = NewLink

NextLink ==
    \/ CallReverse
    \/ SetLinkField

SpecLink == InitLink /\ [][NextLink]_vars

\* C20 - Link.Reverse sets the reverse direction of the entity's link: after
\* e.Link.Reverse() returns, e.Link.Direction equals output-to-input, and
\* every other attribute of the link is unchanged.
ReverseSetsDirection ==
    link.last = "Reverse" =>
        /\ link.Link.Direction = "output-to-input"
        /\ \A f \in DOMAIN ZeroLink \ {"Direction"} : link.Link[f] = link.Link0[f]

\* The parts left alone by a specification of one part
EntityIdle ==
    /\ EntityInit
    /\ rtype = "RawString"
    /\ target = ZeroOfType(rtype)

ExtIdle ==
    /\ ovl = NoField
    /\ conv = NoConvert
    /\ transform = NoTransform
    /\ server = NoServer
    /\ link = NoLink

(***************************************************************************)
(* The keys of the two directions                                          *)
(***************************************************************************)

RECURSIVE unmarshalNamespaceAt(_, _, _)
\* The namespace unmarshalProperties works in when it reaches the field at
\* path: unmarshalStruct advances it by the name of each owning field
unmarshalNamespaceAt(namespace, tid, path) ==
    IF Len(path) = 1 THEN namespace
    ELSE unmarshalNamespaceAt(getNamespace(namespace, FieldsOf(tid)[path[1]].name),
                              FieldsOf(tid)[path[1]].elemType, Tail(path))

\* The key unmarshalProperties looks up for the field at path
unmarshalKeyAt(tid, path) ==
    lookupKey(unmarshalNamespaceAt(sEmpty, tid, path), FieldAt(tid, path).name)

\* The properties GetGoProperties has made from the leaf fields of the record
LeafProperties ==
    {k \in DOMAIN Properties :
        Properties[k].src.o = "field" /\ IsExposedLeaf(FieldAt(rtype, Properties[k].src.path))}

\* C21 - Key agreement between the two directions: for every exposed leaf
\* field at every nesting depth, the property key the unmarshaler looks up
\* for the field equals the key under which the marshaler stored that field,
\* resolve(namespace, fieldName) with the namespace resolved once per nesting
\* level on the owning field's name.
KeyAgreement ==
    JustMarshalled =>
        \A k \in LeafProperties :
            /\ k = getNamespace(unmarshalNamespaceAt(sEmpty, rtype, Properties[k].src.path),
                                FieldAt(rtype, Properties[k].src.path).name)
            /\ unmarshalKeyAt(rtype, Properties[k].src.path) = k

(***************************************************************************)
(* getNamespace, called along a nesting path                               *)
(***************************************************************************)

\* The number of names of a nesting path
MaxPath == 2

sLowerA == <<"a">>

sDotA == <<".","a">>

sADot == <<"a",".">>

sNetIp == <<"n","e","t",".","i","p">>

\* The namespaces a resolution starts from, and the names resolved: names
\* of fields and of types, the empty name of an unnamed type among them
ParentNamespaces == {sEmpty, sLowerA, sA, sDotA, sADot, sNetIp}

ResolvedNames == {sEmpty, sLogin, sIP, sNet, sX}

\* namespace = getNamespace(namespace, name), for the next name of the path
CallGetNamespace ==
    /\ resolved.names # <<>>
    /\ resolved' =
          [resolved EXCEPT
              !.names = Tail(@),
              !.done = Append(@, Head(resolved.names)),
              !.namespace0 = resolved.namespace,
              !.namespace = getNamespace(resolved.namespace, Head(resolved.names)),
              !.calls = Append(@, [namespace |-> resolved.namespace,
                                   name |-> Head(resolved.names),
                                   result |-> getNamespace(resolved.namespace,
                                                           Head(resolved.names))])]
    /\ UNCHANGED <<rtype, data, Properties, Overlays, Labels, insertOrder, lastOps,
                   prevObs, nops, unmarshalVars, xmlVars, lockVars, extVars,
                   walk, adders, handler>>

InitNamespace ==
    /\ EntityIdle
    /\ ExtIdle
    /\ \E parent \in ParentNamespaces, names \in SeqsOf(ResolvedNames, MaxPath) :
          resolved = [parent |-> parent, names |-> names, done |-> <<>>,
                      namespace0 |-> parent, namespace |-> parent, calls |-> <<>>]
    /\ walk = NoWalk
    /\ adders = NoAdders
    /\ handler = NoHandler

NextNamespace == CallGetNamespace

SpecNamespace == InitNamespace /\ [][NextNamespace]_vars

\* The string is made of '.' only
AllDots(s) == \A i \in 1..Len(s) : s[i] = "."

\* t is s without its leading and trailing '.'
IsTrimmed(t, s) ==
    /\ t # <<>> => (Head(t) # "." /\ t[Len(t)] # ".")
    /\ \E i \in 0..Len(s) :
          /\ i + Len(t) <= Len(s)
          /\ AllDots(SubSeq(s, 1, i))
          /\ SubSeq(s, i + 1, i + Len(t)) = t
          /\ AllDots(SubSeq(s, i + Len(t) + 1, Len(s)))

\* The name in lower case
Lowered(s) == [i \in 1..Len(s) |-> ToLowerChar(s[i])]

\* C22 - Namespace resolver: for every parent namespace and name,
\* getNamespace(parent, name) equals parent + '.' + lower(name) with all
\* leading and trailing '.' removed; the result never starts or ends with
\* '.', getNamespace("", name) = lower(name), the result is the same for the
\* same arguments, and resolving successively along a nesting path gives the
\* '.'-joined lower-cased names of that path.
NamespaceResolver ==
    /\ \A i \in DOMAIN resolved.calls :
          LET c == resolved.calls[i]
          IN  /\ IsTrimmed(c.result, c.namespace \o <<".">> \o Lowered(c.name))
              /\ c.namespace = <<>> => c.result = Lowered(c.name)
              /\ \A j \in DOMAIN resolved.calls :
                    (resolved.calls[j].namespace = c.namespace
                        /\ resolved.calls[j].name = c.name)
                    => resolved.calls[j].result = c.result
    /\ (resolved.parent = <<>> /\ \A i \in DOMAIN resolved.done : resolved.done[i] # <<>>)
          => resolved.namespace =
                JoinAll([i \in DOMAIN resolved.done |-> Lowered(resolved.done[i])], <<".">>)

\* "Net" then "IP" have been resolved from the empty namespace, and the
\* result is "net.ip".
NamespaceResolverWitness ==
    /\ resolved.parent = <<>>
    /\ resolved.done = << <<"N","e","t">>, <<"I","P">> >>
    /\ resolved.namespace = <<"n","e","t",".","i","p">>
    /\ resolved.calls[2].namespace = <<"n","e","t">>

(***************************************************************************)
(* The structural markers of the record levels                             *)
(***************************************************************************)

RECURSIVE MarkerKeys(_, _, _)
\* The keys of the markers of the record levels marshalStruct visits: the
\* level itself, under the namespace it was called with, then every exported
\* field that is a struct, under the namespace advanced by the owning field
MarkerKeys(namespace, tid, field) ==
    LET ns == IF field # <<>> THEN getNamespace(namespace, field[1].name) ELSE namespace
    IN  {getNamespace(namespace, TypeDesc(tid).name)}
        \cup UNION { LET fd == FieldsOf(tid)[i]
                     IN  IF IsExported(fd.name) /\ fd.kind = "struct"
                         THEN MarkerKeys(ns, fd.elemType, <<fd>>)
                         ELSE {}
                   : i \in 1..NumField(tid) }

VisitedMarkerKeys == MarkerKeys(sEmpty, rtype, <<>>)

\* C23 - Structural markers: after GetGoProperties on a record, for every record
\* level the marshaller visited (the top-level record and each nested record
\* field) the final property set holds, under the key resolved from the
\* namespace before it is advanced by the field name and the type name, a
\* marker property whose value is the sentinel "Go type" and whose matching
\* rule is loose.
StructuralMarkers ==
    JustMarshalled =>
        \A k \in VisitedMarkerKeys :
            /\ k \in DOMAIN Properties
            /\ IsMarker(Properties[k])
            /\ Properties[k].Value = StrVal(sGoType)
            /\ Properties[k].MatchingRule = MatchLoose

\* A record with a nested record level was marshalled, and both markers are there
StructuralMarkersWitness ==
    /\ JustMarshalled
    /\ rtype = "Host"
    /\ Cardinality(VisitedMarkerKeys) = 2
    /\ \A k \in VisitedMarkerKeys : k \in DOMAIN Properties /\ IsMarker(Properties[k])

(***************************************************************************)
(* What GetGoProperties leaves alone                                       *)
(***************************************************************************)

\* C24 - Marshal frame: GetGoProperties changes only the entity's property set
\* and overlays; the native record held by the entity is field for field the
\* same before and after the call, pointer fields that were nil included.
MarshalFrame ==
    [][CallGetGoProperties =>
            /\ data' = data
            /\ UNCHANGED <<rtype, Labels, target, uerr>>]_vars

(***************************************************************************)
(* GetGoProperties, one step of the walk at a time                         *)
(***************************************************************************)

\* The longest chain of Node values given to the Entity
MaxDepth == 2

\* The call stack the walk is given
MaxStack == 4

RECURSIVE NodeValues(_)
NodeValues(d) ==
    IF d = 0 THEN {}
    ELSE {<<next, sX>> : next \in {<<>>} \cup {<<n>> : n \in NodeValues(d - 1)}}

WalkTypes == {"Target", "Host", "Admin", "Staff", "Node"}

WalkValues(tid) == IF tid = "Node" THEN NodeValues(MaxDepth) ELSE ValuesOfType(tid)

MaxOfSet(S) == IF S = {} THEN 0 ELSE CHOOSE x \in S : \A y \in S : y <= x

RECURSIVE NestingDepth(_, _)
\* The levels of records in a value: the record, and the records its fields
\* hold or point to
NestingDepth(tid, v) ==
    1 + MaxOfSet({ LET fd == FieldsOf(tid)[i]
                   IN  IF fd.kind = "struct" THEN NestingDepth(fd.elemType, v[i])
                       ELSE IF fd.kind = "ptr" /\ fd.elemKind = "struct" /\ v[i] # <<>>
                       THEN NestingDepth(fd.elemType, v[i][1])
                       ELSE 0
                 : i \in 1..NumField(tid) })

RECURSIVE RecordAt(_, _, _)
\* entityValue of the call of marshalStruct at path
RecordAt(tid, v, path) ==
    IF path = <<>> THEN v
    ELSE LET fd == FieldsOf(tid)[path[1]]
         IN  RecordAt(fd.elemType,
                      IF fd.kind = "ptr" THEN v[path[1]][1] ELSE v[path[1]],
                      Tail(path))

RECURSIVE SetFieldAt(_, _, _, _, _)
\* fieldValue.Set(x) on field i of the record at path
SetFieldAt(tid, v, path, i, x) ==
    IF path = <<>> THEN [v EXCEPT ![i] = x]
    ELSE LET j  == path[1]
             fd == FieldsOf(tid)[j]
         IN  [v EXCEPT ![j] =
                 IF fd.kind = "ptr"
                 THEN <<SetFieldAt(fd.elemType, v[j][1], Tail(path), i, x)>>
                 ELSE SetFieldAt(fd.elemType, v[j], Tail(path), i, x)]

\* realValue.Kind() as a buggy variant would find it: the pointer that is not
\* nil is dereferenced too.
realValueKindDeref(fd, wasNil) == IF fd.kind = "ptr" THEN fd.elemKind ELSE fd.kind

\* realValue.Kind(): the pointee's kind for the pointer that was nil and has
\* just been set, the field's own kind otherwise
realValueKind(fd, wasNil) == IF wasNil THEN fd.elemKind ELSE fd.kind

\* A call of marshalStruct(namespace, entityValue, field) on the stack
Frame(tid, namespace, field, path) ==
    [tid |-> tid, namespace |-> namespace, field |-> field, path |-> path,
     phase |-> "base", i |-> 1]

Top == walk.stack[Len(walk.stack)]

SetTop(f) == [walk.stack EXCEPT ![Len(walk.stack)] = f]

Walking == walk.pc = "run"

WalkIdleRest ==
    UNCHANGED <<rtype, data, Properties, Overlays, Labels, insertOrder, lastOps, prevObs,
                nops, unmarshalVars, xmlVars, lockVars, extVars, resolved, adders, handler>>

\* marshalBaseEntities: one turn of its loop, and its return
WalkBase ==
    /\ Walking
    /\ Top.phase = "base"
    /\ IF Top.i > NumField(Top.tid)
       THEN walk' = [walk EXCEPT !.stack = SetTop([Top EXCEPT !.phase = "marker"])]
       ELSE LET fd     == FieldsOf(Top.tid)[Top.i]
                rec    == RecordAt(walk.tid, walk.v, Top.path)
                wasNil == IsExported(fd.name) /\ fd.kind = "ptr" /\ rec[Top.i] = <<>>
            IN  walk' = [walk EXCEPT
                    !.v = IF wasNil
                          THEN SetFieldAt(walk.tid, walk.v, Top.path, Top.i, <<ZeroOfElem(fd)>>)
                          ELSE @,
                    !.stack = SetTop([Top EXCEPT !.i = @ + 1])]
    /\ WalkIdleRest

\* marshalStruct: the marker is added, then the namespace is advanced
WalkMarker ==
    /\ Walking
    /\ Top.phase = "marker"
    /\ walk' = [walk EXCEPT
            !.trace = Append(@, getNamespace(Top.namespace, TypeDesc(Top.tid).name)),
            !.stack = SetTop([Top EXCEPT
                          !.phase = "props",
                          !.i = 1,
                          !.namespace = IF Top.field # <<>>
                                        THEN getNamespace(@, Top.field[1].name)
                                        ELSE @])]
    /\ WalkIdleRest

\* marshalProperties: one turn of its loop
WalkField ==
    /\ Walking
    /\ Top.phase = "props"
    /\ Top.i <= NumField(Top.tid)
    /\ LET fd     == FieldsOf(Top.tid)[Top.i]
           rec    == RecordAt(walk.tid, walk.v, Top.path)
           wasNil == fd.kind = "ptr" /\ rec[Top.i] = <<>>
           v1     == IF wasNil
                     THEN SetFieldAt(walk.tid, walk.v, Top.path, Top.i, <<ZeroOfElem(fd)>>)
                     ELSE walk.v
           next   == [Top EXCEPT !.i = @ + 1]
       IN  IF ~IsExported(fd.name)
           THEN walk' = [walk EXCEPT !.stack = SetTop(next)]
           ELSE IF realValueKind(fd, wasNil) = "struct"
           THEN /\ Len(walk.stack) < MaxStack
                /\ walk' = [walk EXCEPT
                       !.v = v1,
                       !.stack = Append(SetTop(next),
                                        Frame(fd.elemType, Top.namespace, <<fd>>,
                                              Append(Top.path, Top.i))),
                       !.depth = IF Len(walk.stack) + 1 > @ THEN Len(walk.stack) + 1 ELSE @]
           ELSE walk' = [walk EXCEPT
                       !.v = v1,
                       !.trace = IF isDisplayed(fd)
                                 THEN Append(@, getNamespace(Top.namespace, fd.name))
                                 ELSE @,
                       !.stack = SetTop(next)]
    /\ WalkIdleRest

\* marshalProperties and marshalStruct return; the last return ends the call
WalkReturn ==
    /\ Walking
    /\ Top.phase = "props"
    /\ Top.i > NumField(Top.tid)
    /\ walk' = [walk EXCEPT
            !.stack = SubSeq(@, 1, Len(@) - 1),
            !.pc = IF Len(walk.stack) = 1 THEN "done" ELSE @]
    /\ WalkIdleRest

InitWalk ==
    /\ EntityIdle
    /\ ExtIdle
    /\ resolved = NoResolve
    /\ adders = NoAdders
    /\ handler = NoHandler
    /\ \E tid \in WalkTypes :
          \E v \in WalkValues(tid) :
             walk = [pc |-> "run", tid |-> tid, v0 |-> v, v |-> v,
                     stack |-> <<Frame(tid, sEmpty, <<>>, <<>>)>>,
                     depth |-> 1, trace |-> <<>>]

NextWalk == WalkBase \/ WalkMarker \/ WalkField \/ WalkReturn

\* One goroutine runs the call and nothing it waits for: it always gets its
\* next step.
SpecWalk == InitWalk /\ [][NextWalk]_vars /\ WF_vars(NextWalk)

WalkDone == walk.pc = "done"

Blocked(g) ==
    \/ gor[g].pc \in {"RLock", "AddProperty.RLock", "Lock"} /\ mutex.writer # "none"
    \/ gor[g].pc = "Lock.wait" /\ \E h \in Goroutines : mutex.readers[h] > 0

\* C26 - No deadlock in SetNote: a call of SetNote, which takes the lock of the
\* Entity in shared mode and then calls AddProperty, which takes it in shared
\* mode again, returns under every interleaving with calls of Property
\* (exclusive mode) on the same Entity, on a lock whose waiting exclusive
\* request holds new shared requests back; no reachable state has every
\* goroutine blocked on the lock of the Entity.
NoDeadlockInSetNote ==
    ~(\A g \in Goroutines : Blocked(g))

(***************************************************************************)
(* AddEntity called by several goroutines on one transform instance        *)
(***************************************************************************)

MaxAdderCalls == 2

\* The goroutine has passed the limit check and has not appended yet
PastCheck(g) == adders.pc[g] \in {"RLock", "append"}

AddersIdleRest ==
    UNCHANGED <<rtype, data, Properties, Overlays, Labels, insertOrder, lastOps, prevObs,
                nops, unmarshalVars, xmlVars, lockVars, extVars, resolved, walk, handler>>

\* go t.AddEntity(e)
AdderCall ==
    /\ \E g \in Goroutines :
          /\ adders.pc[g] = "idle"
          /\ adders.calls[g] < MaxAdderCalls
          /\ adders' = [adders EXCEPT !.pc[g] = "check", !.calls[g] = @ + 1]
    /\ AddersIdleRest

\* if t.Request.Slider == len(t.entities) { return }: read without the lock
AdderCheck ==
    /\ \E g \in Goroutines :
          /\ adders.pc[g] = "check"
          /\ adders' = [adders EXCEPT
                 !.pc[g] = IF adders.Slider = Len(adders.entities) THEN "idle" ELSE "RLock"]
    /\ AddersIdleRest

\* t.mutex.RLock(): the shared mode, which no other reader holds back; no
\* goroutine asks for the lock of the instance in exclusive mode
AdderRLock ==
    /\ \E g \in Goroutines :
          /\ adders.pc[g] = "RLock"
          /\ adders' = [adders EXCEPT !.pc[g] = "append", !.readers = @ + 1]
    /\ AddersIdleRest

\* t.entities = append(t.entities).  Goroutines that race here all write the
\* slice they read, the same for all, whatever the order of the writes.
AdderAppend ==
    /\ \E g \in Goroutines :
          /\ adders.pc[g] = "append"
          /\ adders' = [adders EXCEPT
                 !.pc[g] = "RUnlock",
                 !.entities = append(@, <<>>),
                 !.atLimit = @ \/ adders.Slider = Len(adders.entities)]
    /\ AddersIdleRest

\* defer t.mutex.RUnlock()
AdderRUnlock ==
    /\ \E g \in Goroutines :
          /\ adders.pc[g] = "RUnlock"
          /\ adders' = [adders EXCEPT !.pc[g] = "idle", !.readers = @ - 1]
    /\ AddersIdleRest

\* The instance of one request, with the limit the request gives
InitAdders ==
    /\ EntityIdle
    /\ ExtIdle
    /\ resolved = NoResolve
    /\ walk = NoWalk
    /\ handler = NoHandler
    /\ \E slider \in 0..MaxSlider :
          adders = [Slider   |-> slider,
                    entities |-> newInstanceFromRequest(slider).entities,
                    pc       |-> [g \in Goroutines |-> "idle"],
                    calls    |-> [g \in Goroutines |-> 0],
                    readers  |-> 0,
                    atLimit  |-> FALSE]

NextAdders == AdderCall \/ AdderCheck \/ AdderRLock \/ AdderAppend \/ AdderRUnlock

SpecAdders == InitAdders /\ [][NextAdders]_vars

\* C27 - Output limit: in every reachable state of a transform instance the
\* number of entities in its output list is at most the Slider limit of the
\* request, for every Slider >= 0, also when several goroutines call AddEntity
\* at the same time: the limit check and the append act as one atomic step (no
\* goroutine is between its check and its append while another one is), and
\* once the limit is reached AddEntity leaves the list unchanged (no append is
\* done at the limit).
OutputLimit ==
    /\ Len(adders.entities) <= adders.Slider
    /\ \A g, h \in Goroutines : g # h => ~(PastCheck(g) /\ PastCheck(h))
    /\ ~adders.atLimit

\* The first and the last part of C27 alone
OutputLimitKept ==
    /\ Len(adders.entities) <= adders.Slider
    /\ ~adders.atLimit

(***************************************************************************)
(* transformHandler: the requests of a Maltego client, each in a goroutine *)
(* of the HTTP server                                                      *)
(***************************************************************************)

MaxHandlerCalls == 2

StatusOK == 200

StatusNoContent == 204

StatusBadRequest == 400

StatusInternalServerError == 500

Requests == {"r1", "r2"}

sOk == <<"o","k">>

sHalf == <<"5","0","%">>

sSlashX == <<"/","x">>

\* What the transform functions log and raise
HandlerTexts == {sOk, sHalf}

\* r.URL.Path of the requests
HandlerPaths == {sTransformNamespace, sSlashX}

\* xml.EscapeText on one character
EscapeChar(c) ==
    CASE c = "&" -> <<"&","a","m","p",";">>
      [] c = "<" -> <<"&","l","t",";">>
      [] c = ">" -> <<"&","g","t",";">>
      [] OTHER   -> <<c>>

RECURSIVE EscapeText(_)
EscapeText(s) == IF s = <<>> THEN <<>> ELSE EscapeChar(Head(s)) \o EscapeText(Tail(s))

RECURSIVE MarshalTexts(_)
\* One element for each text, its characters escaped
MarshalTexts(texts) ==
    IF texts = <<>> THEN <<>>
    ELSE <<"<","t",">">> \o EscapeText(Head(texts)) \o <<"<","/","t",">">>
         \o MarshalTexts(Tail(texts))

\* xml.Marshal(message), reduced to the texts of the UI messages and of the
\* exceptions the message carries
xmlMarshal(message) ==
    MarshalTexts([i \in 1..Len(message.Response.Messages) |->
                      message.Response.Messages[i].Text])
    \o MarshalTexts(message.Exception.Exceptions)

sMissing == <<"(","M","I","S","S","I","N","G",")">>

sNoVerb == <<"%","!","(","N","O","V","E","R","B",")">>

RECURSIVE Fprintf(_)
\* fmt.Fprintf(w, format) with no operand: what is written for a format
\* whose verbs carry no flag and no width
Fprintf(format) ==
    IF format = <<>> THEN <<>>
    ELSE IF Head(format) # "%" THEN <<Head(format)>> \o Fprintf(Tail(format))
    ELSE IF Len(format) = 1 THEN sNoVerb
    ELSE IF format[2] = "%" THEN <<"%">> \o Fprintf(SubSeq(format, 3, Len(format)))
    ELSE <<"%", "!", format[2]>> \o sMissing \o Fprintf(SubSeq(format, 3, Len(format)))

\* The registered Transform is the first object made
ModelId == 1

\* The object a request is given as its instance, as a buggy variant would
\* have it: the registered Transform itself.
newInstanceIsModel(heap) == ModelId

\* &Transform{...} of newInstanceFromRequest: a new object
newInstanceId(heap) == Len(heap) + 1

\* The request before transformHandler has started on it.  lookup, read,
\* decode, invoked, ownMessages and ownExceptions are history.
NewRequest ==
    [pc |-> "GetTransform", status |-> 0, lookup |-> "none", read |-> "none",
     decode |-> "none", inst |-> 0, invoked |-> 0, calls |-> 0, runErr |-> "none",
     built |-> NoResponse, wrote |-> FALSE, written |-> <<>>,
     ownMessages |-> <<>>, ownExceptions |-> <<>>]

\* http.Error(w, msg, status); return
EndWith(req, status) == [req EXCEPT !.pc = "done", !.status = status]

HandlerIdleRest ==
    UNCHANGED <<rtype, data, Properties, Overlays, Labels, insertOrder, lastOps, prevObs,
                nops, unmarshalVars, xmlVars, lockVars, extVars, resolved, walk, adders>>

\* transform := ts.GetTransform(r.URL.Path); nil: StatusNoContent
HandlerGetTransform ==
    /\ \E r \in Requests, path \in HandlerPaths :
          /\ handler.req[r].pc = "GetTransform"
          /\ handler' = [handler EXCEPT !.req[r] =
                 IF GetTransform(handler, path) = <<>>
                 THEN EndWith([@ EXCEPT !.lookup = "nil"], StatusNoContent)
                 ELSE [@ EXCEPT !.lookup = "found", !.pc = "ReadAll"]]
    /\ HandlerIdleRest

\* data, err := ioutil.ReadAll(r.Body): an error, no data, or the body
HandlerReadAll ==
    /\ \E r \in Requests, read \in {"error", "empty", "data"} :
          /\ handler.req[r].pc = "ReadAll"
          /\ handler' = [handler EXCEPT !.req[r] =
                 CASE read = "error" ->
                          EndWith([@ EXCEPT !.read = read], StatusInternalServerError)
                   [] read = "empty" ->
                          EndWith([@ EXCEPT !.read = read], StatusBadRequest)
                   [] read = "data"  -> [@ EXCEPT !.read = read, !.pc = "Unmarshal"]]
    /\ HandlerIdleRest

\* err = xml.Unmarshal(data, &request)
HandlerUnmarshal ==
    /\ \E r \in Requests, decode \in {"error", "ok"} :
          /\ handler.req[r].pc = "Unmarshal"
          /\ handler' = [handler EXCEPT !.req[r] =
                 IF decode = "error"
                 THEN EndWith([@ EXCEPT !.decode = decode], StatusInternalServerError)
                 ELSE [@ EXCEPT !.decode = decode, !.pc = "newInstance"]]
    /\ HandlerIdleRest

\* instance := transform.newInstanceFromRequest(request).  The request is the
\* Message UnmarshalXML left as it was, its Slider 0.
HandlerNewInstance ==
    /\ \E r \in Requests :
          /\ handler.req[r].pc = "newInstance"
          /\ LET id == newInstanceId(handler.heap)
             IN  handler' = [handler EXCEPT
                     !.heap = IF id > Len(@)
                              THEN Append(@, newInstanceFromRequest(0))
                              ELSE [@ EXCEPT ![id] = newInstanceFromRequest(0)],
                     !.req[r] = [@ EXCEPT !.inst = id, !.pc = "run"]]
    /\ HandlerIdleRest

\* transform.run(instance) is entered
HandlerRun ==
    /\ \E r \in Requests :
          /\ handler.req[r].pc = "run"
          /\ handler' = [handler EXCEPT
                 !.req[r] = [@ EXCEPT !.invoked = @ + 1, !.pc = "running"]]
    /\ HandlerIdleRest

\* The transform function calls t.Infof, t.Errorf or t.AddEntity
HandlerRunCalls ==
    /\ \E r \in Requests, op \in {"Infof", "Errorf", "AddEntity"}, text \in HandlerTexts :
          /\ handler.req[r].pc = "running"
          /\ handler.req[r].calls < MaxHandlerCalls
          /\ op = "AddEntity" => text = sOk
          /\ LET id == handler.req[r].inst
             IN  handler' = [handler EXCEPT
                     !.heap[id] =
                         CASE op = "Infof" ->
                                  [@ EXCEPT !.messages =
                                       append(@, <<[Text |-> text, Type |-> "Inform"]>>)]
                           [] op = "Errorf" ->
                                  [@ EXCEPT !.exceptions = append(@, <<text>>)]
                           [] op = "AddEntity" ->
                                  [@ EXCEPT !.entities = AddEntity(handler.heap[id], "target")],
                     !.req[r] = [@ EXCEPT
                         !.calls = @ + 1,
                         !.ownMessages = IF op = "Infof" THEN Append(@, text) ELSE @,
                         !.ownExceptions = IF op = "Errorf" THEN Append(@, text) ELSE @]]
    /\ HandlerIdleRest

\* The transform function returns; response, err := instance.marshalOutput(err)
HandlerMarshalOutput ==
    /\ \E r \in Requests, err \in {"nil", "error"} :
          /\ handler.req[r].pc = "running"
          /\ handler' = [handler EXCEPT !.req[r] =
                 [@ EXCEPT !.runErr = err,
                           !.built = marshalOutput(handler.heap[handler.req[r].inst], err),
                           !.pc = "Fprintf"]]
    /\ HandlerIdleRest

\* fmt.Fprintf(w, string(response)): the response is the format
HandlerFprintf ==
    /\ \E r \in Requests :
          /\ handler.req[r].pc = "Fprintf"
          /\ handler' = [handler EXCEPT !.req[r] =
                 [@ EXCEPT !.wrote = TRUE,
                           !.written = Fprintf(xmlMarshal(handler.req[r].built)),
                           !.status = StatusOK,
                           !.pc = "done"]]
    /\ HandlerIdleRest

\* A server whose transforms map holds one Transform, under the key
\* RegisterTransform gives it, and two requests that have just arrived
InitHandler ==
    /\ EntityIdle
    /\ ExtIdle
    /\ resolved = NoResolve
    /\ walk = NoWalk
    /\ adders = NoAdders
    /\ handler = [transforms |-> [isNil |-> FALSE, kv |-> (sTransformNamespace :> ModelId)],
                  heap       |-> <<newInstanceFromRequest(0)>>,
                  req        |-> [r \in Requests |-> NewRequest]]

NextHandler ==
    \/ HandlerGetTransform
    \/ HandlerReadAll
    \/ HandlerUnmarshal
    \/ HandlerNewInstance
    \/ HandlerRun
    \/ HandlerRunCalls
    \/ HandlerMarshalOutput
    \/ HandlerFprintf

SpecHandler == InitHandler /\ [][NextHandler]_vars

Finished(r) == handler.req[r].pc = "done"

\* The steps of C28 that come before the response is written
HandlingOrder(r) ==
    LET req == handler.req[r]
    IN  /\ req.invoked <= 1
        /\ req.invoked = 1 =>
              req.lookup = "found" /\ req.read = "data" /\ req.decode = "ok"
        /\ (Finished(r) /\ req.lookup = "nil") =>
              req.status = StatusNoContent /\ req.invoked = 0
        /\ (Finished(r) /\ req.read = "empty") =>
              req.status = StatusBadRequest /\ req.invoked = 0
        /\ (Finished(r) /\ (req.read = "error" \/ req.decode = "error")) =>
              req.status = StatusInternalServerError /\ req.invoked = 0

RequestHandlingSteps ==
    \A r \in Requests :
        /\ HandlingOrder(r)
        /\ (Finished(r) /\ handler.req[r].invoked = 1) =>
              handler.req[r].wrote /\ handler.req[r].built.built

\* The texts of the UI messages of a response
ResponseTexts(built) ==
    [i \in 1..Len(built.Response.Messages) |-> built.Response.Messages[i].Text]

\* C29 - Request isolation: handling a request never changes the entities,
\* messages or exceptions of the registered Transform; each request runs on a
\* new instance made by newInstanceFromRequest, its own, whose lists the
\* request alone fills, so that under any interleaving of requests to the same
\* transform the response of a request holds what its own run of the function
\* produced and nothing of another request.
RequestIsolation ==
    /\ handler.heap[ModelId].entities = <<>>
    /\ handler.heap[ModelId].messages = <<>>
    /\ handler.heap[ModelId].exceptions = <<>>
    /\ \A r \in Requests :
          LET req == handler.req[r]
          IN  /\ req.inst # 0 =>
                    /\ req.inst # ModelId
                    /\ \A q \in Requests \ {r} : handler.req[q].inst # req.inst
                    /\ [i \in 1..Len(handler.heap[req.inst].messages) |->
                            handler.heap[req.inst].messages[i].Text] = req.ownMessages
                    /\ handler.heap[req.inst].exceptions = req.ownExceptions
              /\ req.built.built =>
                    /\ ResponseTexts(req.built) =
                           IF req.runErr = "nil" THEN req.ownMessages ELSE <<>>
                    /\ req.built.Exception.Exceptions =
                           IF req.runErr = "nil" THEN <<>> ELSE req.ownExceptions
                    /\ req.built.Response.Entities = <<>>

\* Two requests to the same transform have been answered, the function of
\* each having logged something else
RequestIsolationWitness ==
    /\ \A r \in Requests : Finished(r) /\ handler.req[r].invoked = 1
    /\ handler.req["r1"].runErr = "nil"
    /\ handler.req["r2"].runErr = "nil"
    /\ handler.req["r1"].ownMessages = <<sOk, sHalf>>
    /\ handler.req["r2"].ownMessages = <<sHalf>>
    /\ ResponseTexts(handler.req["r1"].built) = <<sOk, sHalf>>
    /\ ResponseTexts(handler.req["r2"].built) = <<sHalf>>

(***************************************************************************)
(* What the overlays of an Entity refer to                                 *)
(***************************************************************************)

StoredAtPosition == \A pos \in DOMAIN Overlays : Overlays[pos].Position = pos

\* The overlay is one a caller of AddOverlay gave
GivenByCaller(overlay) ==
    \E o \in ExplicitOverlays :
        /\ overlay.PropertyName = o.value
        /\ overlay.Position = o.pos
        /\ overlay.Type = o.oType

\* C30 as stated - Overlay reference invariant: in every reachable state of an
\* Entity, after any sequence of GetGoProperties, AddProperty and AddOverlay
\* calls, every overlay in Overlays is stored under the key equal to its own
\* position and its property name is the key of a property present in
\* Properties.
OverlayReference ==
    /\ StoredAtPosition
    /\ \A pos \in DOMAIN Overlays : Overlays[pos].PropertyName \in DOMAIN Properties

\* C30 - Every overlay in Overlays is stored under the key equal to its own
\* position; an overlay GetGoProperties made from an overlay tag names a
\* property present in Properties, and AddOverlay stores the name its caller
\* gives, whether a property of that name is present or not.
OverlayReferenceOfTags ==
    /\ StoredAtPosition
    /\ \A pos \in DOMAIN Overlays :
          \/ Overlays[pos].PropertyName \in DOMAIN Properties
          \/ GivenByCaller(Overlays[pos])

\* An Entity with an overlay made from a tag, on a property that is present,
\* and an overlay a caller gave, on a property that is not
OverlayReferenceWitness ==
    /\ \E pos \in DOMAIN Overlays :
          /\ Overlays[pos].PropertyName \in DOMAIN Properties
          /\ Properties[Overlays[pos].PropertyName].src.o = "field"
    /\ \E pos \in DOMAIN Overlays :
          /\ Overlays[pos].PropertyName \notin DOMAIN Properties
          /\ GivenByCaller(Overlays[pos])

====
